---- MODULE Spec2Model ----
(***************************************************************************)
(* Model of the ML training supervisor: the experiment table               *)
(* (csv_handler.py), the process manager (process_manager.py), the         *)
(* control loop of MLTrainingManager (main_training_manager.py), the       *)
(* terminal UI thread that calls back into the manager (terminal_ui.py),   *)
(* and the remote tracker adapter (wandb_monitor.py).                      *)
(***************************************************************************)
EXTENDS Integers, Sequences, FiniteSets, TLC

\* ---- bounds of the model ----
NumRows == 2
MaxProc == 2
MaxSpawns == 3
NumRtRows == 2
MaxLoss == 2
MaxFiles == 3
MaxSlots == 3
MaxText == 3
MaxOut == 3
MaxCalls == 3
MaxTicks == 3

IDs == 1..NumRows

\* ---- values ----
RunId == "run-abc"
LogName == "crisp-oak-7"
ApiName == "api-name"
TrackerStates == {"running", "finished", "crashed", "failed", "unknown"}
TrackerNames == {"", ApiName}

VARIABLES
    table,                  \* CSVHandler.df / the table file: one row per ID
    processes,              \* ProcessManager.processes: ID -> process record
    live,                   \* number of live OS children started for each ID
    lock,                   \* holder of ProcessManager.lock ("free" if none)
    process_index_counter,  \* ProcessManager.process_index_counter
    running,                \* MLTrainingManager.running
    cfg,                    \* max_training_process, auto_continue, wandb_monitor
    pcMon,                  \* position of the monitoring thread
    checkList,              \* rows still to visit in _check_running_trainings
    admitList,              \* rows still to visit in _start_new_trainings
    running_count,          \* local running_count of _start_new_trainings
    pcUI,                   \* position of the terminal UI thread
    uiSel,                  \* model id picked by the UI's 's' key handler
    pcApi,                  \* position of a direct caller of ProcessManager
    apiRet,                 \* what the last direct ProcessManager call returned
    tick,                   \* observations of the current control-loop tick
    nameFound,              \* rows set to Done while a run name was available
    happy,                  \* rows whose child followed the happy path
    disk,                   \* rows of the table file as a reader finds them
    df,                     \* CSVHandler.df, shared by every caller
    out,                    \* per thread: the frame to_csv is writing
    pcW,                    \* per thread: position inside update_value
    argW,                   \* per thread: (model_id, column, value) of the call
    retW,                   \* per thread: what update_value returned
    rtFile,                 \* round trip: cell texts of the table file
    rtArg,                  \* round trip: (model_id, column, value)
    rtFrame,                \* round trip: the frame reload() produced last
    rtPc,                   \* round trip: "start", "updated" or "reloaded"
    ptIn,                   \* pretrained handoff: the table and the directory
    ptDf,                   \* pretrained handoff: the frame of rows A and B
    ptLaunch,               \* pretrained handoff: how row B was launched
    ptPc,                   \* pretrained handoff: "start", "resolved", "launched"
    gpuCfg,                 \* GPU assigner: the [gpu] and mapping options
    gpuOut,                 \* GPU assigner: what each spawned slot was given
    gpuRow,                 \* GPU assigner: use_process_order and the GpuID column of the last row
    gpuLive,                \* GPU assigner: slots whose process is live, and the admission count
    childOut,               \* log capture: what the child writes to each stream
    logPos,                 \* log capture: characters of it consumed so far
    logFile,                \* log capture: the content of each log file
    logPc,                  \* log capture: "reading" or "closed", per stream
    trkRun,                 \* tracker adapter: the run as the remote tracker holds it
    trkCall,                \* tracker adapter: the last method call and what it returned
    rcRow,                  \* reconcile: the Training row being reconciled
    rcProc,                 \* reconcile: the process record of that row
    rcCfg,                  \* reconcile: whether a tracker adapter is configured
    rcSeen,                 \* reconcile: what each tracker query answered
    rcPc,                   \* reconcile: position inside the branch of the dead process
    lvRec,                  \* log viewers: the process record of each Training row
    lvViewers,              \* log viewers: viewers opened so far for each row
    lvCalled,               \* log viewers: rows the last tick asked a viewer for
    lvTicks                 \* log viewers: calls of _print_training_logs so far

vars == <<table, processes, live, lock, process_index_counter, running,
          cfg, pcMon, checkList, admitList, running_count, pcUI, uiSel,
          pcApi, apiRet, tick, nameFound, happy,
          disk, df, out, pcW, argW, retW, rtFile, rtArg, rtFrame, rtPc,
          ptIn, ptDf, ptLaunch, ptPc, gpuCfg, gpuOut, gpuRow, gpuLive,
          childOut, logPos, logFile, logPc,
          trkRun, trkCall,
          rcRow, rcProc, rcCfg, rcSeen, rcPc,
          lvRec, lvViewers, lvCalled, lvTicks>>

pmVars == <<processes, live, lock, process_index_counter>>
monVars == <<pcMon, checkList, admitList, running_count>>
uiVars == <<pcUI, uiSel>>
apiVars == <<pcApi, apiRet>>
obsVars == <<tick, nameFound, happy>>
csvVars == <<disk, df, out, pcW, argW, retW>>
\* what the supervisor's own steps leave alone
rtVars == <<rtFile, rtArg, rtFrame, rtPc>>
ptVars == <<ptIn, ptDf, ptLaunch, ptPc>>
gpuVars == <<gpuCfg, gpuOut, gpuRow, gpuLive>>
logVars == <<childOut, logPos, logFile, logPc>>
trkVars == <<trkRun, trkCall>>
rcVars == <<rcRow, rcProc, rcCfg, rcSeen, rcPc>>
lvVars == <<lvRec, lvViewers, lvCalled, lvTicks>>
auxVars == <<csvVars, rtVars, ptVars, gpuVars, logVars, trkVars, rcVars, lvVars>>
\* what the steps of the other components leave alone
supVars == <<table, pmVars, running, cfg, monVars, uiVars, apiVars, obsVars>>

\* ---- the experiment table (csv_handler.py) ----
Row(tc, rid, wf, cmd) ==
    [TrainingCheck |-> tc, WandbRunID |-> rid, WeightFile |-> wf,
     TrainingCommand |-> cmd]

\* rows a table file can hold when the supervisor is constructed
InitRows ==
    { Row("", "", "", "python train.py"),
      Row("", "", "", ""),
      Row("", RunId, "", "python train.py"),
      Row("Training", RunId, "", "python train.py") }

RECURSIVE SeqOfSet(_)
SeqOfSet(S) ==
    IF S = {} THEN <<>>
    ELSE LET m == CHOOSE x \in S : \A y \in S : x <= y
         IN <<m>> \o SeqOfSet(S \ {m})

get_untrained_models == SeqOfSet({i \in IDs : table[i].TrainingCheck = ""})
get_models_in_training ==
    SeqOfSet({i \in IDs : table[i].TrainingCheck = "Training"})

update_value(tbl, id, column, value) ==
    [tbl EXCEPT ![id] = [@ EXCEPT ![column] = value]]
\* variant of update_model_status that writes nothing
update_model_status_Dropped(tbl, id, status) == tbl
update_model_status(tbl, id, status) ==
    update_value(tbl, id, "TrainingCheck", status)
update_weight_file(tbl, id, name) ==
    update_value(tbl, id, "WeightFile", name)

\* ---- process records (process_manager.py) ----
NoProc ==
    [present |-> FALSE, alive |-> FALSE, status |-> "", run_id |-> "",
     run_name |-> "", process_index |-> 0]
NewProc(idx) ==
    [present |-> TRUE, alive |-> TRUE, status |-> "", run_id |-> "",
     run_name |-> "", process_index |-> idx]

is_process_running(id) == processes[id].present /\ processes[id].alive
get_run_name(id) == IF processes[id].present THEN processes[id].run_name ELSE ""
get_wandb_run_id(id) == IF processes[id].present THEN processes[id].run_id ELSE ""
LiveIds == {i \in IDs : is_process_running(i)}

\* get_all_processes and show_all_process_logs call a method that takes
\* ProcessManager.lock again for every record while they hold it; the lock
\* is a plain threading.Lock, so the second acquire never returns.
RelocksForEachRecord == \E i \in IDs : processes[i].present
\* start_training_process evaluates
\*   model_id in self.processes and self.is_process_running(model_id)
\* while holding the lock: the right operand takes the lock again.
RelocksOnExisting(id) == processes[id].present


\* ---- ProcessManager operations ----
\* start_training_process up to the grace sleep; the lock stays held.
start_enter(t, id, popenOk, outcome) ==
    /\ lock = "free"
    /\ process_index_counter < MaxSpawns
    /\ IF RelocksOnExisting(id)
       THEN /\ outcome = "blocked"
            /\ lock' = t
            /\ UNCHANGED <<processes, live, process_index_counter>>
       ELSE /\ process_index_counter' = process_index_counter + 1
            /\ IF popenOk
               THEN /\ outcome = "started"
                    /\ processes' = [processes EXCEPT
                                       ![id] = NewProc(process_index_counter)]
                    /\ live' = [live EXCEPT ![id] = @ + 1]
                    /\ lock' = t
               ELSE /\ outcome = "exception"
                    /\ UNCHANGED <<processes, live, lock>>

\* variant of start_grace that reports success whatever poll() returns
start_grace_NoPoll(t, id, ok) ==
    /\ lock = t
    /\ ok
    /\ processes' = [processes EXCEPT ![id].status = "running"]
    /\ lock' = "free"
    /\ UNCHANGED <<live, process_index_counter>>
\* start_training_process after time.sleep(2): poll, set status, return.
start_grace(t, id, ok) ==
    /\ lock = t
    /\ ok = processes[id].alive
    /\ processes' = [processes EXCEPT
                       ![id].status = IF ok THEN "running" ELSE "error"]
    /\ lock' = "free"
    /\ UNCHANGED <<live, process_index_counter>>

stop_training_process(id, ret) ==
    /\ lock = "free"
    /\ IF ~processes[id].present
       THEN ret = FALSE /\ UNCHANGED <<processes, live>>
       ELSE /\ ret = TRUE
            /\ IF processes[id].alive
               THEN /\ processes' = [processes EXCEPT ![id].alive = FALSE,
                                                      ![id].status = "stopped"]
                    /\ live' = [live EXCEPT ![id] = @ - 1]
               ELSE /\ processes' = [processes EXCEPT
                                       ![id].status = "completed"]
                    /\ UNCHANGED live
    /\ UNCHANGED <<lock, process_index_counter>>

Exited(i) == processes[i].present /\ ~processes[i].alive

cleanup_old_processes ==
    /\ lock = "free"
    /\ processes' = [i \in IDs |-> IF Exited(i) THEN NoProc ELSE processes[i]]
    /\ UNCHANGED <<live, lock, process_index_counter>>

\* ---- the child process and its stderr capture worker ----
HappyExit(id, rc) ==
    /\ rc = 0
    /\ processes[id].status = "running"
    /\ processes[id].run_name # ""

ChildExit(id, rc) ==
    /\ is_process_running(id)
    /\ processes' = [processes EXCEPT ![id].alive = FALSE]
    /\ live' = [live EXCEPT ![id] = @ - 1]
    /\ happy' = IF HappyExit(id, rc) THEN happy \cup {id} ELSE happy
    /\ UNCHANGED <<table, lock, process_index_counter, running, cfg, auxVars,
                   monVars, uiVars, apiVars, tick, nameFound>>

Field(k) == IF k = "id" THEN "run_id" ELSE "run_name"
Parsed(k) == IF k = "id" THEN RunId ELSE LogName

\* the stderr worker completes a line that matches the run id pattern
\* (k = "id") or the "Syncing run" pattern (k = "name"); the worker may
\* still be draining the pipe after the child has exited
read_output_stream(id, k) ==
    /\ lock = "free"
    /\ processes[id].present
    /\ processes[id][Field(k)] = ""
    /\ processes' = [processes EXCEPT ![id] = [@ EXCEPT ![Field(k)] = Parsed(k)]]
    /\ UNCHANGED <<table, live, lock, process_index_counter, running, cfg, auxVars,
                   monVars, uiVars, apiVars, obsVars>>

\* values a matching line of the child's output can carry: the first one
\* printed, or another one printed later by the same child
LaterRunId == "run-xyz"
LaterName == "late-elm-9"
ParsedValues(k) ==
    IF k = "id" THEN {RunId, LaterRunId} ELSE {LogName, LaterName}
\* a capture worker completes any line that matches a pattern: the value
\* is stored under the lock, whatever the field holds
read_output_line(id, k, v) ==
    /\ lock = "free"
    /\ processes[id].present
    /\ processes' = [processes EXCEPT ![id] = [@ EXCEPT ![Field(k)] = v]]
    /\ UNCHANGED <<table, live, lock, process_index_counter, running, cfg, auxVars,
                   monVars, uiVars, apiVars, obsVars>>

\* ---- tracker adapter (wandb_monitor.py) ----
is_run_finished(state) == state \in {"finished", "failed", "crashed"}
is_run_crashed(state) == state \in {"crashed", "failed"}

\* ---- notification.py as called by _check_running_trainings ----
\* notify_training_completed(model_id, model_name, runtime_hours, wandb_url)
\* is called with completion_time=..., and notify_training_crashed(model_id,
\* model_name, error_msg, runtime_hours) with crash_time=...: both calls
\* raise TypeError, which _monitoring_loop catches, ending the tick.
notify_training_completed_raises == TRUE
notify_training_crashed_raises == TRUE


\* ---- MLTrainingManager: the control loop ----
\* exceptions a tick raises in the model: the notification calls' TypeError,
\* the RuntimeError of stop() joining its own thread, and reload() failing
\* on a file that is missing or empty
ExceptionClasses == {"TypeError", "RuntimeError", "EmptyDataError"}
\* variant of loop_catches for a handler written `except TypeError`
loop_catches_TypeErrorOnly(exc) == exc = "TypeError"
\* `except Exception as e` around the body of the while loop
loop_catches(exc) == exc \in ExceptionClasses
\* where the loop thread is after a tick raised: at its sleep, or gone
AfterRaise(exc) == IF loop_catches(exc) THEN "idle" ELSE "dead"

NewTick ==
    [stale |-> {i \in IDs : table[i].TrainingCheck = "Training"
                            /\ ~is_process_running(i)},
     reconciled |-> FALSE, admission |-> FALSE, definite |-> TRUE,
     raised |-> ""]

Snapshot(i) ==
    [id |-> i, WandbRunID |-> table[i].WandbRunID,
     WeightFile |-> table[i].WeightFile,
     TrainingCommand |-> table[i].TrainingCommand]
SnapshotSeq(ids) == [k \in 1..Len(ids) |-> Snapshot(ids[k])]

\* start(): set running, reset the slot counter, start the loop and the UI
Start ==
    /\ pcMon = "new"
    /\ pcApi = "off"
    /\ running' = TRUE
    /\ process_index_counter' = 0
    /\ pcMon' = "idle"
    /\ UNCHANGED <<table, processes, live, lock, cfg, auxVars, checkList,
                   admitList, running_count, uiVars, apiVars, obsVars>>

\* top of the while loop: reload the table, snapshot the Training rows
TickBegin ==
    /\ pcMon = "idle"
    /\ running
    /\ \/ /\ checkList' = SnapshotSeq(get_models_in_training)
          /\ tick' = NewTick
          /\ pcMon' = "check"
       \/ /\ tick' = [tick EXCEPT !.raised = "EmptyDataError"]
          /\ pcMon' = AfterRaise("EmptyDataError")
          /\ UNCHANGED checkList
    /\ UNCHANGED <<table, pmVars, running, cfg, auxVars, admitList, running_count,
                   uiVars, apiVars, nameFound, happy>>

\* while self.running is false: the loop thread ends
LoopExit ==
    /\ pcMon = "idle"
    /\ ~running
    /\ pcMon' = "exited"
    /\ UNCHANGED <<table, pmVars, running, cfg, auxVars, checkList, admitList,
                   running_count, uiVars, apiVars, obsVars>>

\* variant of WeightFileOnDone without the tracker-name fallback
WeightFileOnDone_NoTrackerName(logName, apiName, old) ==
    IF logName # "" THEN logName ELSE old
\* WeightFile written when a row is set to Done
WeightFileOnDone(logName, apiName, old) ==
    IF logName # "" THEN logName
    ELSE IF apiName # "" THEN apiName
    ELSE old

\* the row of a Training model whose process is not running
ReconcileDead(m, fin, cr, nm) ==
    LET id == m.id IN
    IF m.WandbRunID # "" /\ cfg.wandb
    THEN IF is_run_finished(fin)
         THEN IF is_run_crashed(cr)
              THEN /\ table' = update_model_status(table, id, "Crash")
                   /\ tick' = [tick EXCEPT !.reconciled = TRUE,
                                 !.raised = IF notify_training_crashed_raises
                                            THEN "TypeError" ELSE @]
                   /\ pcMon' = IF notify_training_crashed_raises
                               THEN AfterRaise("TypeError") ELSE "check"
                   /\ checkList' = IF notify_training_crashed_raises
                                   THEN <<>> ELSE Tail(checkList)
                   /\ happy' = happy \ {id}
                   /\ UNCHANGED nameFound
              ELSE /\ table' = update_weight_file(
                                 update_model_status(table, id, "Done"), id,
                                 WeightFileOnDone(get_run_name(id), nm,
                                                  table[id].WeightFile))
                   /\ nameFound' = IF get_run_name(id) # "" \/ nm # ""
                                   THEN nameFound \cup {id} ELSE nameFound
                   /\ tick' = [tick EXCEPT !.reconciled = TRUE,
                                 !.definite = @ /\ fin = "finished"
                                                /\ cr = "finished",
                                 !.raised =
                                    IF notify_training_completed_raises
                                    THEN "TypeError" ELSE @]
                   /\ pcMon' = IF notify_training_completed_raises
                               THEN AfterRaise("TypeError") ELSE "check"
                   /\ checkList' = IF notify_training_completed_raises
                                   THEN <<>> ELSE Tail(checkList)
                   /\ happy' = IF fin = "finished" /\ cr = "finished"
                                  /\ nm # ""
                               THEN happy ELSE happy \ {id}
         ELSE /\ tick' = [tick EXCEPT !.definite = FALSE]
              /\ checkList' = Tail(checkList)
              /\ happy' = happy \ {id}
              /\ UNCHANGED <<table, pcMon, nameFound>>
    ELSE /\ table' = update_model_status(table, id, "Crash")
         /\ tick' = [tick EXCEPT !.reconciled = TRUE]
         /\ checkList' = Tail(checkList)
         /\ UNCHANGED <<pcMon, nameFound, happy>>

\* the row of a Training model whose process is running
LiveRunId(m) ==
    IF m.WandbRunID = "" THEN get_wandb_run_id(m.id) ELSE m.WandbRunID
LiveWeightFile(m, nm) ==
    IF m.WeightFile = "" /\ cfg.wandb
    THEN IF get_run_name(m.id) # "" THEN get_run_name(m.id)
         ELSE IF LiveRunId(m) # "" THEN nm ELSE ""
    ELSE ""
ReconcileLive(m, nm) ==
    LET id == m.id
        t1 == IF m.WandbRunID = "" /\ get_wandb_run_id(id) # ""
              THEN update_value(table, id, "WandbRunID", get_wandb_run_id(id))
              ELSE table
        t2 == IF LiveWeightFile(m, nm) # ""
              THEN update_value(t1, id, "WeightFile", LiveWeightFile(m, nm))
              ELSE t1
    IN /\ table' = t2
       /\ checkList' = Tail(checkList)
       /\ UNCHANGED <<pcMon, tick, nameFound, happy>>

\* one iteration of the for loop of _check_running_trainings
check_running_trainings(fin, cr, nm) ==
    /\ pcMon = "check"
    /\ checkList # <<>>
    /\ lock = "free"
    /\ IF is_process_running(Head(checkList).id)
       THEN ReconcileLive(Head(checkList), nm)
       ELSE ReconcileDead(Head(checkList), fin, cr, nm)
    /\ UNCHANGED <<pmVars, running, cfg, auxVars, admitList, running_count, uiVars,
                   apiVars>>

\* running_count as get_all_processes reports it
CountRunning == Cardinality(LiveIds)
\* variant of limit_reached that lets one more process in
limit_reached_Strict(count) == count > cfg.max_training_process
\* the admission loop stops when running_count reaches the limit
limit_reached(count) == count >= cfg.max_training_process

\* entry of _start_new_trainings
start_new_trainings ==
    /\ pcMon = "check"
    /\ checkList = <<>>
    /\ lock = "free"
    /\ tick' = [tick EXCEPT !.admission = TRUE]
    /\ IF RelocksForEachRecord
       THEN /\ lock' = "monitor"
            /\ pcMon' = "blocked"
            /\ UNCHANGED <<admitList, running_count>>
       ELSE /\ running_count' = CountRunning
            /\ lock' = lock
            /\ IF limit_reached(CountRunning)
               THEN pcMon' = "finish" /\ UNCHANGED admitList
               ELSE /\ pcMon' = "admit"
                    /\ admitList' = SnapshotSeq(get_untrained_models)
    /\ UNCHANGED <<table, processes, live, process_index_counter,
                   running, cfg, auxVars, checkList, uiVars, apiVars, nameFound, happy>>

LoopOver == admitList = <<>> \/ limit_reached(running_count)

\* the TrainingCommand of a row as pd.read_csv returns it: an empty cell of
\* the file is NaN, any other cell its text
CommandCell(text) == IF text = "" THEN "nan" ELSE text
\* `if not training_command`: NaN is a non-zero float, hence true
command_missing(text) == CommandCell(text) = ""

\* one iteration of the admission loop, up to the spawn call
AdmitRow ==
    /\ pcMon = "admit"
    /\ ~LoopOver
    /\ IF command_missing(Head(admitList).TrainingCommand)
       THEN /\ admitList' = Tail(admitList)
            /\ UNCHANGED <<table, pcMon>>
       ELSE /\ table' = update_model_status(table, Head(admitList).id,
                                            "Training")
            /\ pcMon' = "spawn"
            /\ UNCHANGED admitList
    /\ UNCHANGED <<pmVars, running, cfg, auxVars, checkList, running_count, uiVars,
                   apiVars, obsVars>>

\* the call of start_training_process, until it sleeps or returns
\* (a NaN command makes Popen raise TypeError before any child exists)
SpawnBegin(popenOk, outcome) ==
    /\ pcMon = "spawn"
    /\ popenOk => CommandCell(Head(admitList).TrainingCommand) # "nan"
    /\ start_enter("monitor", Head(admitList).id, popenOk, outcome)
    /\ CASE outcome = "started" ->
              /\ pcMon' = "grace"
              /\ UNCHANGED <<table, admitList>>
         [] outcome = "blocked" ->
              /\ pcMon' = "blocked"
              /\ UNCHANGED <<table, admitList>>
         [] outcome = "exception" ->
              /\ table' = update_model_status(table, Head(admitList).id,
                                              "Crash")
              /\ admitList' = Tail(admitList)
              /\ pcMon' = "admit"
    /\ UNCHANGED <<running, cfg, auxVars, checkList, running_count, uiVars, apiVars,
                   obsVars>>

\* start_training_process returns after the grace period
SpawnGrace(ok) ==
    /\ pcMon = "grace"
    /\ start_grace("monitor", Head(admitList).id, ok)
    /\ IF ok
       THEN running_count' = running_count + 1 /\ UNCHANGED table
       ELSE /\ table' = update_model_status(table, Head(admitList).id, "Crash")
            /\ UNCHANGED running_count
    /\ admitList' = Tail(admitList)
    /\ pcMon' = "admit"
    /\ UNCHANGED <<running, cfg, auxVars, checkList, uiVars, apiVars, obsVars>>

\* after the admission loop: "if running_count == 0: self.stop()"
shuts_down(count) == count = 0

AfterAdmission ==
    /\ pcMon = "admit"
    /\ LoopOver
    /\ IF shuts_down(running_count) /\ running
       THEN /\ lock = "free"
            /\ running' = FALSE
            /\ IF RelocksForEachRecord
               THEN lock' = "monitor" /\ pcMon' = "blocked" /\ tick' = tick
               ELSE /\ lock' = lock
                    /\ pcMon' = AfterRaise("RuntimeError")
                    /\ tick' = [tick EXCEPT !.raised = "RuntimeError"]
       ELSE /\ pcMon' = "finish"
            /\ UNCHANGED <<running, lock, tick>>
    /\ admitList' = <<>>
    /\ UNCHANGED <<table, processes, live, process_index_counter, cfg, auxVars,
                   checkList, running_count, uiVars, apiVars, nameFound,
                   happy>>

\* _print_training_logs, cleanup_old_processes, then sleep
FinishTick ==
    /\ pcMon = "finish"
    /\ cleanup_old_processes
    /\ pcMon' = "idle"
    /\ UNCHANGED <<table, running, cfg, auxVars, checkList, admitList, running_count,
                   uiVars, apiVars, obsVars>>


\* ---- MLTrainingManager operations called from the terminal UI thread ----
UIStarted == pcMon # "new"

\* _get_formatted_model_list -> get_models_status -> get_all_processes
UIGetModels ==
    /\ UIStarted
    /\ pcUI = "idle"
    /\ lock = "free"
    /\ RelocksForEachRecord
    /\ lock' = "ui"
    /\ pcUI' = "blocked"
    /\ UNCHANGED <<table, processes, live, process_index_counter,
                   running, cfg, auxVars, monVars, uiSel, apiVars, obsVars>>

\* key 'a': show_all_process_logs
UIShowAllLogs ==
    /\ UIStarted
    /\ pcUI = "idle"
    /\ lock = "free"
    /\ RelocksForEachRecord
    /\ lock' = "ui"
    /\ pcUI' = "blocked"
    /\ UNCHANGED <<table, processes, live, process_index_counter,
                   running, cfg, auxVars, monVars, uiSel, apiVars, obsVars>>

\* key 's': the model list is fetched, then the selected model is stopped
UIKeyS(id) ==
    /\ UIStarted
    /\ pcUI = "idle"
    /\ lock = "free"
    /\ ~RelocksForEachRecord
    /\ pcUI' = "s_call"
    /\ uiSel' = id
    /\ UNCHANGED <<table, pmVars, running, cfg, auxVars, monVars, apiVars, obsVars>>

\* MLTrainingManager.stop_training(model_id)
stop_training(ret) ==
    /\ pcUI = "s_call"
    /\ stop_training_process(uiSel, ret)
    /\ table' = IF ret THEN update_model_status(table, uiSel, "Crash")
                ELSE table
    /\ happy' = IF ret THEN happy \ {uiSel} ELSE happy
    /\ pcUI' = "idle"
    /\ UNCHANGED <<running, cfg, auxVars, monVars, uiSel, apiVars, tick, nameFound>>

\* key 'q' or a signal: MLTrainingManager.stop()
stop ==
    /\ UIStarted
    /\ pcUI = "idle"
    /\ IF ~running
       THEN pcUI' = "exited" /\ UNCHANGED <<running, lock>>
       ELSE /\ lock = "free"
            /\ running' = FALSE
            /\ IF RelocksForEachRecord
               THEN lock' = "ui" /\ pcUI' = "blocked"
               ELSE lock' = lock /\ pcUI' = "exited"
    /\ UNCHANGED <<table, processes, live, process_index_counter, cfg, auxVars,
                   monVars, uiSel, apiVars, obsVars>>

\* ---- the ProcessManager interface called directly ----
Ret(op, id, ret) == [op |-> op, id |-> id, ret |-> ret]

ApiStart(id, popenOk, outcome) ==
    /\ pcApi = "idle"
    /\ start_enter("api", id, popenOk, outcome)
    /\ CASE outcome = "started" ->
              /\ pcApi' = "grace"
              /\ apiRet' = Ret("start_training_process", id, "pending")
         [] outcome = "blocked" ->
              /\ pcApi' = "blocked_start_training_process"
              /\ apiRet' = Ret("start_training_process", id, "pending")
         [] outcome = "exception" ->
              /\ pcApi' = "idle"
              /\ apiRet' = Ret("start_training_process", id, "failure")
    /\ UNCHANGED <<table, running, cfg, auxVars, monVars, uiVars, obsVars>>

ApiGrace(ok) ==
    /\ pcApi = "grace"
    /\ start_grace("api", apiRet.id, ok)
    /\ pcApi' = "idle"
    /\ apiRet' = [apiRet EXCEPT !.ret = IF ok THEN "success" ELSE "failure"]
    /\ UNCHANGED <<table, running, cfg, auxVars, monVars, uiVars, obsVars>>

ApiStop(id, ret) ==
    /\ pcApi = "idle"
    /\ stop_training_process(id, ret)
    /\ apiRet' = Ret("stop_training_process", id,
                     IF ret THEN "success" ELSE "failure")
    /\ UNCHANGED <<table, running, cfg, auxVars, monVars, uiVars, pcApi, obsVars>>

get_all_processes ==
    /\ pcApi = "idle"
    /\ lock = "free"
    /\ IF RelocksForEachRecord
       THEN /\ lock' = "api"
            /\ pcApi' = "blocked_get_all_processes"
            /\ apiRet' = Ret("get_all_processes", 0, "pending")
       ELSE /\ apiRet' = Ret("get_all_processes", 0, "success")
            /\ UNCHANGED <<lock, pcApi>>
    /\ UNCHANGED <<table, processes, live, process_index_counter,
                   running, cfg, auxVars, monVars, uiVars, obsVars>>

show_all_process_logs ==
    /\ pcApi = "idle"
    /\ lock = "free"
    /\ IF RelocksForEachRecord
       THEN /\ lock' = "api"
            /\ pcApi' = "blocked_show_all_process_logs"
            /\ apiRet' = Ret("show_all_process_logs", 0, "pending")
       ELSE /\ apiRet' = Ret("show_all_process_logs", 0, "success")
            /\ UNCHANGED <<lock, pcApi>>
    /\ UNCHANGED <<table, processes, live, process_index_counter,
                   running, cfg, auxVars, monVars, uiVars, obsVars>>

ApiCleanup ==
    /\ pcApi = "idle"
    /\ cleanup_old_processes
    /\ apiRet' = Ret("cleanup_old_processes", 0, "success")
    /\ UNCHANGED <<table, running, cfg, auxVars, monVars, uiVars, pcApi, obsVars>>

\* ---- CSVHandler.update_value called by two threads (csv_handler.py) ----
\* The control loop calls it from _check_running_trainings and
\* _start_new_trainings, the UI thread from stop_training. Both use the one
\* CSVHandler object, so self.df is shared; nothing serialises the calls.
Threads == {"monitor", "ui"}
\* bytes a writer skipped over after the other writer truncated the file
Hole == Row("?", "?", "?", "?")
Complete(d) == Len(d) = NumRows /\ \A i \in 1..Len(d) : d[i] # Hole
NoOut == [rows |-> <<>>, pos |-> 0]

\* self.reload(): pd.read_csv of whatever the file holds at this moment; an
\* empty file raises EmptyDataError, which update_value turns into False
uv_reload(t) ==
    /\ pcW[t] = "reload"
    /\ IF disk = <<>>
       THEN /\ pcW' = [pcW EXCEPT ![t] = "done"]
            /\ retW' = [retW EXCEPT ![t] = FALSE]
            /\ df' = df
       ELSE /\ df' = disk
            /\ pcW' = [pcW EXCEPT ![t] = "assign"]
            /\ retW' = retW
    /\ UNCHANGED <<disk, out, argW, rtVars, ptVars, gpuVars, logVars, trkVars, rcVars, lvVars, supVars>>

\* idx = self.df[self.df['ID'] == model_id].index, then
\* self.df.loc[idx, column] = value on the frame self.df names now
uv_assign(t) ==
    /\ pcW[t] = "assign"
    /\ IF argW[t].id \in DOMAIN df
       THEN /\ df' = update_value(df, argW[t].id, argW[t].column,
                                  argW[t].value)
            /\ pcW' = [pcW EXCEPT ![t] = "open"]
            /\ retW' = retW
       ELSE /\ pcW' = [pcW EXCEPT ![t] = "done"]
            /\ retW' = [retW EXCEPT ![t] = FALSE]
            /\ df' = df
    /\ UNCHANGED <<disk, out, argW, rtVars, ptVars, gpuVars, logVars, trkVars, rcVars, lvVars, supVars>>

\* self.df.to_csv(self.csv_file_path, ...): the path is opened for writing,
\* which empties the file in place
to_csv_open(t) ==
    /\ pcW[t] = "open"
    /\ out' = [out EXCEPT ![t] = [rows |-> df, pos |-> 0]]
    /\ disk' = <<>>
    /\ pcW' = [pcW EXCEPT ![t] = "write"]
    /\ UNCHANGED <<df, argW, retW, rtVars, ptVars, gpuVars, logVars, trkVars, rcVars, lvVars, supVars>>

WriteAt(d, k, row) ==
    [i \in 1..(IF Len(d) > k THEN Len(d) ELSE k) |->
        IF i = k THEN row ELSE IF i <= Len(d) THEN d[i] ELSE Hole]

\* to_csv writes the next row at its own file offset; after the last row
\* the file is closed and update_value returns True
to_csv_write(t) ==
    /\ pcW[t] = "write"
    /\ LET k == out[t].pos + 1 IN
       /\ disk' = WriteAt(disk, k, out[t].rows[k])
       /\ out' = [out EXCEPT ![t].pos = k]
       /\ IF k = Len(out[t].rows)
          THEN /\ pcW' = [pcW EXCEPT ![t] = "done"]
               /\ retW' = [retW EXCEPT ![t] = TRUE]
          ELSE UNCHANGED <<pcW, retW>>
    /\ UNCHANGED <<df, argW, rtVars, ptVars, gpuVars, logVars, trkVars, rcVars, lvVars, supVars>>

\* _start_new_trainings after its update_model_status(model_id, "Training")
\* has returned: the result is not looked at, the child is spawned
uv_spawn(popenOk) ==
    /\ pcW["monitor"] = "done"
    /\ argW["monitor"].value = "Training"
    /\ process_index_counter = 0
    /\ start_enter("monitor", argW["monitor"].id, popenOk,
                   IF popenOk THEN "started" ELSE "exception")
    /\ UNCHANGED <<table, running, cfg, monVars, uiVars, apiVars, obsVars,
                   csvVars, rtVars, ptVars, gpuVars, logVars, trkVars,
                   rcVars, lvVars>>

\* the table store while the supervisor's own model is running
CsvIdle ==
    /\ disk = <<>>
    /\ df = <<>>
    /\ out = [t \in Threads |-> NoOut]
    /\ pcW = [t \in Threads |-> "done"]
    /\ argW = [t \in Threads |-> [id |-> 1, column |-> "", value |-> ""]]
    /\ retW = [t \in Threads |-> FALSE]


\* ---- what pd.read_csv and DataFrame.to_csv do to the cells of the table ----
\* (csv_handler.py: reload is pd.read_csv(path), update_value ends with
\* df.to_csv(path, index=False, na_rep=''))
RtRows == 1..NumRtRows
RtCols == {"WeightFile", "GpuID"}
\* texts read_csv takes for a missing value (among its default na_values)
NaTexts == {"", "NA", "nan", "null"}
\* the numeric literals of the model
NumLits ==
    { [text |-> "3", n |-> 3, float |-> FALSE],
      [text |-> "3.0", n |-> 3, float |-> TRUE],
      [text |-> "4", n |-> 4, float |-> FALSE],
      [text |-> "5", n |-> 5, float |-> FALSE],
      [text |-> "5.0", n |-> 5, float |-> TRUE],
      [text |-> "-3", n |-> -3, float |-> FALSE],
      [text |-> "-5", n |-> -5, float |-> FALSE] }
IsNum(text) == \E l \in NumLits : l.text = text
IsIntText(text) == \E l \in NumLits : l.text = text /\ ~l.float
NumOf(text) == (CHOOSE l \in NumLits : l.text = text).n
IntText(n) == (CHOOSE l \in NumLits : l.n = n /\ ~l.float).text
FloatText(n) == (CHOOSE l \in NumLits : l.n = n /\ l.float).text

\* a cell of a DataFrame
NaN == [t |-> "nan", n |-> 0, s |-> ""]
PyInt(n) == [t |-> "int", n |-> n, s |-> ""]
PyFloat(n) == [t |-> "float", n |-> n, s |-> ""]
PyStr(text) == [t |-> "str", n |-> 0, s |-> text]

\* dtype read_csv infers for a column from its texts
ColumnType(texts) ==
    LET present == {x \in texts : x \notin NaTexts} IN
    IF \A x \in present : IsNum(x)
    THEN IF (\A x \in present : IsIntText(x)) /\ present = texts
         THEN "int64" ELSE "float64"
    ELSE "object"
ParseCell(dtype, text) ==
    IF text \in NaTexts THEN NaN
    ELSE IF dtype = "int64" THEN PyInt(NumOf(text))
    ELSE IF dtype = "float64" THEN PyFloat(NumOf(text))
    ELSE PyStr(text)
read_csv(file) ==
    [r \in RtRows |-> [c \in RtCols |->
        ParseCell(ColumnType({file[q][c] : q \in RtRows}), file[r][c])]]

\* self.df.loc[idx, column] = value
FrameDtype(frame, c) ==
    IF \A r \in RtRows : frame[r][c].t = "int" THEN "int64"
    ELSE IF \A r \in RtRows : frame[r][c].t \in {"int", "float", "nan"}
    THEN "float64" ELSE "object"
Coerce(dtype, value) ==
    IF dtype = "float64" /\ value.t = "int" THEN PyFloat(value.n) ELSE value
loc_assign(frame, id, column, value) ==
    [frame EXCEPT ![id][column] = Coerce(FrameDtype(frame, column), value)]

\* DataFrame.to_csv(..., na_rep='')
RenderCell(cell) ==
    IF cell.t = "nan" THEN ""
    ELSE IF cell.t = "int" THEN IntText(cell.n)
    ELSE IF cell.t = "float" THEN FloatText(cell.n)
    ELSE cell.s
to_csv(frame) == [r \in RtRows |-> [c \in RtCols |-> RenderCell(frame[r][c])]]

\* variant of update_refused that does not test idx.empty
update_refused_ColumnOnly(id, column) == column \notin RtCols
\* `if idx.empty: return False`, `if column not in self.df.columns: return
\* False`
update_refused(id, column) == id \notin RtRows \/ column \notin RtCols

\* update_value(model_id, column, value): reload, the two tests, then the
\* assignment and to_csv
rt_update_value ==
    /\ rtPc = "start"
    /\ IF update_refused(rtArg.id, rtArg.column)
       THEN /\ rtFrame' = read_csv(rtFile)
            /\ rtFile' = rtFile
            /\ rtPc' = "refused"
       ELSE /\ rtFrame' = loc_assign(read_csv(rtFile), rtArg.id,
                                     rtArg.column, rtArg.value)
            /\ rtFile' = to_csv(rtFrame')
            /\ rtPc' = "updated"
    /\ UNCHANGED <<rtArg, csvVars, ptVars, gpuVars, logVars, trkVars, rcVars, lvVars, supVars>>

\* the reload() that follows
rt_reload ==
    /\ rtPc = "updated"
    /\ rtFrame' = read_csv(rtFile)
    /\ rtPc' = "reloaded"
    /\ UNCHANGED <<rtFile, rtArg, csvVars, ptVars, gpuVars, logVars, trkVars, rcVars, lvVars, supVars>>

RtIdle ==
    /\ rtFile = <<>>
    /\ rtArg = [id |-> 1, column |-> "", value |-> NaN, file |-> <<>>]
    /\ rtFrame = <<>>
    /\ rtPc = "off"


\* ---- pretrained weight handoff (main_training_manager.py) ----
\* Row A is the referenced row, row B the row being admitted.
PtRows == {"A", "B"}
\* files a weight directory may hold: model_<loss>_<idx>.pth, a .pth file
\* of another name, and a file that is not a .pth
ModelFile(loss, idx) == [kind |-> "model", loss |-> loss, idx |-> idx]
OtherPth == [kind |-> "pth", loss |-> 0, idx |-> 0]
NotPth == [kind |-> "txt", loss |-> 0, idx |-> 0]
NoFile == [kind |-> "none", loss |-> 0, idx |-> 0]
WeightFiles ==
    {ModelFile(l, 1) : l \in 1..MaxLoss} \cup {ModelFile(1, 2), OtherPth, NotPth}
endswith_pth(f) == f.kind \in {"model", "pth"}
pattern_match(f) == f.kind = "model"

\* the for loop of _find_best_weight_file over weight_files[k..]
RECURSIVE BestFrom(_, _, _, _)
BestFrom(files, k, best_file, lowest_loss) ==
    IF k > Len(files) THEN best_file
    ELSE IF pattern_match(files[k])
            /\ (lowest_loss = 0 \/ files[k].loss < lowest_loss)
         THEN BestFrom(files, k + 1, files[k], files[k].loss)
         ELSE BestFrom(files, k + 1, best_file, lowest_loss)
\* lowest_loss = 0 stands for float('inf'): every loss of the model is >= 1
find_best_weight_file(listing) ==
    LET weight_files == SelectSeq(listing, endswith_pth) IN
    IF weight_files = <<>> THEN NoFile
    ELSE LET best_file == BestFrom(weight_files, 1, NoFile, 0) IN
         IF best_file # NoFile THEN best_file ELSE weight_files[1]

\* str(x) of a cell taken from a row of the frame
PyStrOf(cell) ==
    IF cell.t = "nan" THEN "nan"
    ELSE IF cell.t = "int" THEN IntText(cell.n)
    ELSE IF cell.t = "float" THEN FloatText(cell.n)
    ELSE cell.s
\* all_models['ID'] == pretrained_model_id, the right side being a str: a
\* cell of an int64 column never equals it
IdEqualsStr(cell, text) == cell.t = "str" /\ cell.s = text
\* _find_pretrained_weight_file(pretrained_model_id)
find_pretrained_weight_file(frame, pretrained_model_id, dirExists, listing) ==
    LET model == {r \in PtRows : IdEqualsStr(frame[r].ID, pretrained_model_id)}
    IN IF model = {} THEN NoFile
       ELSE LET weight_dir == frame[CHOOSE r \in model : TRUE].WeightFile IN
            IF weight_dir.t # "str" \/ weight_dir.s = "" THEN NoFile
            ELSE IF ~dirExists THEN NoFile
            ELSE find_best_weight_file(listing)

\* int(pretrained_model_id) succeeds
int_parses(text) == IsIntText(text)
Abs(n) == IF n < 0 THEN -n ELSE n

\* the texts of the table file, and the frame read_csv makes of them
\* idKind "int": both IDs are numerals; "str": neither is; "mixed": A's is
PtIdText(in, r) ==
    IF r = "A" THEN (IF in.idKind = "str" THEN "expA" ELSE "3")
    ELSE (IF in.idKind = "int" THEN "4" ELSE "expB")
PtAbsentText(in) == IF in.idKind = "str" THEN "expZ" ELSE "5"
PtPreText(in, r) ==
    IF r = "A" THEN in.aPre
    ELSE IF in.ref = "A" THEN PtIdText(in, "A") ELSE PtAbsentText(in)
PtFrame(in) ==
    [r \in PtRows |->
       [ID |-> ParseCell(ColumnType({PtIdText(in, q) : q \in PtRows}),
                         PtIdText(in, r)),
        PretrainedModelId |->
              ParseCell(ColumnType({PtPreText(in, q) : q \in PtRows}),
                        PtPreText(in, r)),
        WeightFile |-> ParseCell("object", IF r = "A" THEN in.aWeight ELSE "")]]

\* lines 541-574 of _start_new_trainings for row B
pt_resolve ==
    /\ ptPc = "start"
    /\ LET cell == ptDf["B"].PretrainedModelId
           pretrained_model_id == PyStrOf(cell)
           weight_file == find_pretrained_weight_file(
                              ptDf, pretrained_model_id, ptIn.dirExists,
                              ptIn.listing)
       IN IF pretrained_model_id = "nan"
          THEN UNCHANGED <<ptDf, ptLaunch>>
          ELSE IF weight_file # NoFile
          THEN /\ ptLaunch' = [ptLaunch EXCEPT !.pretrained_path = weight_file]
               /\ ptDf' = ptDf
          ELSE /\ ptDf' = IF int_parses(pretrained_model_id)
                          THEN [ptDf EXCEPT !["B"].PretrainedModelId =
                                   PyInt(-Abs(NumOf(pretrained_model_id)))]
                          ELSE ptDf
               /\ ptLaunch' = ptLaunch
    /\ ptPc' = "resolved"
    /\ UNCHANGED <<ptIn, csvVars, rtVars, gpuVars, logVars, trkVars, rcVars, lvVars, supVars>>

\* lines 576-590: the row is marked Training and spawned with pretrained_args
pt_launch ==
    /\ ptPc = "resolved"
    /\ ptLaunch' = [ptLaunch EXCEPT !.launched = TRUE]
    /\ ptPc' = "launched"
    /\ UNCHANGED <<ptIn, ptDf, csvVars, rtVars, gpuVars, logVars, trkVars, rcVars, lvVars, supVars>>

PtIdle ==
    /\ ptIn = [idKind |-> "", ref |-> "", aPre |-> "", aWeight |-> "",
               aStatus |-> "", dirExists |-> FALSE, listing |-> <<>>]
    /\ ptDf = <<>>
    /\ ptLaunch = [launched |-> FALSE, pretrained_path |-> NoFile]
    /\ ptPc = "off"


\* ---- GPU assigner (config_handler.py, process_manager.py) ----
\* Option values are texts, modelled as sequences of one-character strings.
Chars == {"0", "1", ",", " "}
HasChar(text, c) == \E k \in DOMAIN text : text[k] = c
\* str.split(sep)
RECURSIVE Split(_, _)
Split(text, sep) ==
    IF ~HasChar(text, sep) THEN <<text>>
    ELSE LET k == CHOOSE i \in DOMAIN text :
                      text[i] = sep /\ \A j \in 1..(i - 1) : text[j] # sep
         IN <<SubSeq(text, 1, k - 1)>>
                \o Split(SubSeq(text, k + 1, Len(text)), sep)
\* str.strip()
RECURSIVE Strip(_)
Strip(text) ==
    IF text = <<>> THEN text
    ELSE IF Head(text) = " " THEN Strip(Tail(text))
    ELSE IF text[Len(text)] = " " THEN Strip(SubSeq(text, 1, Len(text) - 1))
    ELSE text
StripAll(items) == [k \in DOMAIN items |-> Strip(items[k])]
\* sep.join(items)
RECURSIVE Join(_, _)
Join(items, sep) ==
    IF items = <<>> THEN <<>>
    ELSE IF Len(items) = 1 THEN items[1]
    ELSE items[1] \o <<sep>> \o Join(Tail(items), sep)

\* ConfigHandler.get_list(section, option, fallback)
get_list(value, fallback) ==
    IF value = <<>> THEN fallback ELSE StripAll(Split(value, ","))

\* the values assign_gpu_to_process_index returns: a str or a list of str
GpuStr(text) == [kind |-> "str", v |-> <<text>>]
GpuList(items) == [kind |-> "list", v |-> items]
\* get_process_gpu_mapping: the entry made of the text right of "processN="
mapping_value(val) ==
    IF HasChar(val, "+") THEN GpuList(StripAll(Split(val, "+")))
    ELSE GpuStr(Strip(val))

\* the slot a process other than the first takes its device from, when the
\* first process holds every device
round_robin_index_NoShift(process_index, n) == process_index % n
round_robin_index(process_index, n) == (process_index - 1) % n

\* ConfigHandler.assign_gpu_to_process_index(process_index)
assign_gpu_to_process_index(c, process_index) ==
    IF ~c.enable_gpu_assignment THEN GpuStr(<<>>)
    ELSE IF process_index \in DOMAIN c.process_gpu_mapping
    THEN mapping_value(c.process_gpu_mapping[process_index])
    ELSE LET available_gpus == get_list(c.gpu_list, <<<<"0">>>>) IN
         IF available_gpus = <<>> THEN GpuStr(c.default_gpu)
         ELSE IF c.allow_multi_gpu /\ Len(available_gpus) > 1
         THEN IF process_index = 0 THEN GpuList(available_gpus)
              ELSE GpuStr(available_gpus[
                       round_robin_index(process_index, Len(available_gpus))
                       + 1])
         ELSE GpuStr(available_gpus[(process_index % Len(available_gpus)) + 1])

\* start_training_process: CUDA_VISIBLE_DEVICES made of gpu_id, or left unset
Unset == <<"unset">>
Truthy(gpu_id) ==
    IF gpu_id.kind = "list" THEN gpu_id.v # <<>> ELSE gpu_id.v[1] # <<>>
cuda_visible_devices(gpu_id) ==
    IF ~Truthy(gpu_id) THEN Unset
    ELSE IF gpu_id.kind = "list" THEN Join(gpu_id.v, ",")
    ELSE gpu_id.v[1]

\* start_training_process takes the next slot index and asks the assigner
gpu_spawn ==
    /\ gpuCfg.on
    /\ Len(gpuOut) < MaxSlots
    /\ LET process_index == Len(gpuOut)
           gpu_id == assign_gpu_to_process_index(gpuCfg, process_index)
       IN gpuOut' = Append(gpuOut, [gpu_id |-> gpu_id,
                                    env |-> cuda_visible_devices(gpu_id)])
    /\ UNCHANGED <<gpuCfg, gpuRow, gpuLive, csvVars, rtVars, ptVars, logVars,
                   trkVars, rcVars, lvVars, supVars>>

\* `if running_count >= self.max_training_process: break`
limit_reached_for(count, max) == count >= max

\* the GpuID column of the table file as a row sees it: whether the column
\* exists, the dtype read_csv infers for it, and the text of the row's cell
GpuColumn(present, dtype, text) ==
    [present |-> present, dtype |-> dtype, text |-> text]
NoGpuColumn == GpuColumn(FALSE, "object", <<>>)
GpuColumns ==
    { NoGpuColumn,
      GpuColumn(TRUE, "object", <<>>),
      GpuColumn(TRUE, "float64", <<>>),
      GpuColumn(TRUE, "int64", <<"0">>),
      GpuColumn(TRUE, "int64", <<"1">>),
      GpuColumn(TRUE, "float64", <<"1">>),
      GpuColumn(TRUE, "object", <<"1">>),
      GpuColumn(TRUE, "object", <<"0", ",", "1">>) }
\* Python values of model.get('GpuID', None)
GpuNone == [t |-> "None", n |-> 0, s |-> <<>>]
GpuNaN == [t |-> "nan", n |-> 0, s |-> <<>>]
GpuNum(t, text) == [t |-> t, n |-> IF text = <<"0">> THEN 0 ELSE 1, s |-> <<>>]
GpuText(text) == [t |-> "str", n |-> 0, s |-> text]
gpu_cell(col) ==
    IF ~col.present THEN GpuNone
    ELSE IF col.text = <<>> THEN GpuNaN
    ELSE IF col.dtype = "int64" THEN GpuNum("int", col.text)
    ELSE IF col.dtype = "float64" THEN GpuNum("float", col.text)
    ELSE GpuText(col.text)
\* bool(v) and str(v)
py_truthy(v) ==
    CASE v.t = "None" -> FALSE
      [] v.t = "nan" -> TRUE
      [] v.t \in {"int", "float"} -> v.n # 0
      [] v.t = "str" -> v.s # <<>>
py_str(v) ==
    CASE v.t = "None" -> <<"N", "o", "n", "e">>
      [] v.t = "nan" -> <<"n", "a", "n">>
      [] v.t = "int" -> <<IF v.n = 0 THEN "0" ELSE "1">>
      [] v.t = "float" -> <<IF v.n = 0 THEN "0" ELSE "1", ".", "0">>
      [] v.t = "str" -> v.s
\* _start_new_trainings: the gpu_id argument of start_training_process
row_gpu_id(use_process_order, col) ==
    IF use_process_order THEN GpuNone
    ELSE IF gpu_cell(col) # GpuNone /\ gpu_cell(col) = GpuText(<<>>)
    THEN GpuNone
    ELSE gpu_cell(col)
\* start_training_process: gpu_id and CUDA_VISIBLE_DEVICES of the child
launch_gpu(c, process_index, gpu_id) ==
    IF gpu_id = GpuNone
    THEN LET g == assign_gpu_to_process_index(c, process_index)
         IN [gpu_id |-> g, env |-> cuda_visible_devices(g)]
    ELSE [gpu_id |-> [kind |-> "row", v |-> <<py_str(gpu_id)>>],
          env |-> IF py_truthy(gpu_id) THEN py_str(gpu_id) ELSE Unset]

\* a row is admitted and spawned: the next slot index, the row's gpu_id
gpu_spawn_row(use_process_order, col) ==
    /\ gpuCfg.on
    /\ Len(gpuOut) < MaxSlots
    /\ gpuOut' = Append(gpuOut,
                        launch_gpu(gpuCfg, Len(gpuOut),
                                   row_gpu_id(use_process_order, col)))
    /\ gpuRow' = [use_process_order |-> use_process_order, col |-> col]
    /\ UNCHANGED <<gpuCfg, gpuLive, csvVars, rtVars, ptVars, logVars, trkVars,
                   rcVars, lvVars, supVars>>

\* one iteration of the admission loop of a tick that began with no process
\* record: the row is spawned by process order; started tells whether the
\* child exists and survives the grace period (running_count += 1)
gpu_admit(started) ==
    /\ gpuCfg.on
    /\ Len(gpuOut) < MaxSlots
    /\ ~limit_reached_for(gpuLive.running_count, gpuLive.max_training_process)
    /\ gpuOut' = Append(gpuOut, launch_gpu(gpuCfg, Len(gpuOut), GpuNone))
    /\ gpuLive' = IF started
                  THEN [gpuLive EXCEPT !.slots = @ \cup {Len(gpuOut)},
                                       !.running_count = @ + 1]
                  ELSE gpuLive
    /\ UNCHANGED <<gpuCfg, gpuRow, csvVars, rtVars, ptVars, logVars, trkVars,
                   rcVars, lvVars, supVars>>

\* the child of a slot exits
gpu_exit(slot) ==
    /\ slot \in gpuLive.slots
    /\ gpuLive' = [gpuLive EXCEPT !.slots = @ \ {slot}]
    /\ UNCHANGED <<gpuCfg, gpuOut, gpuRow, csvVars, rtVars, ptVars, logVars,
                   trkVars, rcVars, lvVars, supVars>>

NoGpuLive == [slots |-> {}, running_count |-> 0, max_training_process |-> 0]
GpuIdle ==
    /\ gpuCfg = [on |-> FALSE]
    /\ gpuOut = <<>>
    /\ gpuRow = [use_process_order |-> TRUE, col |-> NoGpuColumn]
    /\ gpuLive = NoGpuLive


\* ---- output capture (process_manager.py) ----
Streams == {"stdout", "stderr"}
\* the characters a child writes: a letter, a line feed, a carriage return
OutChars == {"a", "LF", "CR"}
Header == <<"header">>
Footer == <<"footer">>
\* the pipe is opened by Popen with text=True and universal_newlines=True:
\* stream.read(1) returns a line feed for a carriage return, and one line
\* feed for a carriage return followed by a line feed
text_read1(src, pos) ==
    IF src[pos + 1] = "CR"
    THEN IF pos + 2 <= Len(src) /\ src[pos + 2] = "LF"
         THEN [char |-> "LF", used |-> 2]
         ELSE [char |-> "LF", used |-> 1]
    ELSE [char |-> src[pos + 1], used |-> 1]

\* one round of the while loop of _read_output_stream: read(1), f.write
read_output_char(st) ==
    /\ logPc[st] = "reading"
    /\ logPos[st] < Len(childOut[st])
    /\ LET rd == text_read1(childOut[st], logPos[st]) IN
        /\ logFile' = [logFile EXCEPT ![st] = Append(@, rd.char)]
        /\ logPos' = [logPos EXCEPT ![st] = @ + rd.used]
    /\ UNCHANGED <<childOut, logPc, csvVars, rtVars, ptVars, gpuVars, trkVars, rcVars, lvVars, supVars>>

\* read(1) returns the empty string: the loop ends and the footer is written
read_output_eof(st) ==
    /\ logPc[st] = "reading"
    /\ logPos[st] = Len(childOut[st])
    /\ logFile' = [logFile EXCEPT ![st] = @ \o Footer]
    /\ logPc' = [logPc EXCEPT ![st] = "closed"]
    /\ UNCHANGED <<childOut, logPos, csvVars, rtVars, ptVars, gpuVars, trkVars, rcVars, lvVars, supVars>>

LogIdle ==
    /\ childOut = [st \in Streams |-> <<>>]
    /\ logPos = [st \in Streams |-> 0]
    /\ logFile = [st \in Streams |-> <<>>]
    /\ logPc = [st \in Streams |-> "off"]


\* ---- the tracker adapter's methods (wandb_monitor.py) ----
\* what self.api.run(path) can raise when the remote call fails
RemoteErrors == {"CommError", "Timeout", "ValueError"}
\* variant of adapter_catches for a handler written `except CommError`
adapter_catches_CommErrorOnly(exc) == exc = "CommError"
\* `except Exception as e` around the body of get_run_status / get_run_name
adapter_catches(exc) == exc \in RemoteErrors
AdapterMethods ==
    {"get_run_status", "is_run_finished", "is_run_crashed", "get_run_name"}
\* get_run_status(run_id)["state"]: run.state, or "unknown" after an error;
\* "raise" stands for an exception that leaves the method
get_run_status(exc) ==
    IF exc = "" THEN trkRun.state
    ELSE IF adapter_catches(exc) THEN "unknown" ELSE "raise"
\* get_run_name(run_id): run.name, or None after an error
tracker_get_run_name(exc) ==
    IF exc = "" THEN trkRun.name
    ELSE IF adapter_catches(exc) THEN "None" ELSE "raise"
PyBool(b) == IF b THEN "True" ELSE "False"
AdapterReturn(op, exc) ==
    LET state == get_run_status(exc) IN
    CASE op = "get_run_status" -> state
      [] op = "is_run_finished" ->
            IF state = "raise" THEN "raise" ELSE PyBool(is_run_finished(state))
      [] op = "is_run_crashed" ->
            IF state = "raise" THEN "raise" ELSE PyBool(is_run_crashed(state))
      [] op = "get_run_name" -> tracker_get_run_name(exc)

\* one call of an adapter method; exc = "" when the remote call succeeds
adapter_call(op, exc) ==
    /\ trkCall.n < MaxCalls
    /\ trkCall' = [n |-> trkCall.n + 1, op |-> op, exc |-> exc,
                   ret |-> AdapterReturn(op, exc)]
    /\ UNCHANGED <<trkRun, csvVars, rtVars, ptVars, gpuVars, logVars, rcVars, lvVars, supVars>>

\* the remote run proceeds on the tracker's side, whatever the adapter does
remote_run_moves(state) ==
    /\ trkRun.state = "running"
    /\ trkRun' = [trkRun EXCEPT !.state = state]
    /\ UNCHANGED <<trkCall, csvVars, rtVars, ptVars, gpuVars, logVars, rcVars, lvVars, supVars>>

TrkIdle ==
    /\ trkRun = [state |-> "", name |-> ""]
    /\ trkCall = [n |-> 0, op |-> "", exc |-> "", ret |-> ""]

\* ---- reconciling one Training row whose process is not running ----
\* (main_training_manager.py, _check_running_trainings, lines 319-387, one
\* tracker query at a time; the run may move on the tracker between them)
\* the row is the snapshot taken by get_models_in_training; the process
\* record may be gone, or hold what the stderr worker parsed
RcRecord(present, run_id, run_name) ==
    [present |-> present, run_id |-> run_id, run_name |-> run_name]
rc_get_run_name == IF rcProc.present THEN rcProc.run_name ELSE ""
rc_has_tracker_info == rcRow.WandbRunID # "" /\ rcCfg.wandb

\* line 323: run_id is empty or no tracker is configured -> Crash (385)
rc_no_tracker_info ==
    /\ rcPc = "start"
    /\ ~rc_has_tracker_info
    /\ rcRow' = [rcRow EXCEPT !.TrainingCheck = "Crash"]
    /\ rcPc' = "done"
    /\ UNCHANGED <<rcProc, rcCfg, rcSeen, csvVars, rtVars, ptVars, gpuVars,
                   logVars, trkVars, lvVars, supVars>>

\* line 325: self.wandb_monitor.is_run_finished(run_id)
rc_is_run_finished(exc) ==
    /\ rcPc = "start"
    /\ rc_has_tracker_info
    /\ LET state == get_run_status(exc) IN
        /\ rcSeen' = [rcSeen EXCEPT !.finished = state]
        /\ rcPc' = IF is_run_finished(state) THEN "finished" ELSE "done"
    /\ UNCHANGED <<rcRow, rcProc, rcCfg, csvVars, rtVars, ptVars, gpuVars,
                   logVars, trkVars, lvVars, supVars>>

\* line 326: self.wandb_monitor.is_run_crashed(run_id), a second query;
\* then update_model_status to Crash (328) or Done (340)
rc_is_run_crashed(exc) ==
    /\ rcPc = "finished"
    /\ LET state == get_run_status(exc) IN
        /\ rcSeen' = [rcSeen EXCEPT !.crashed = state]
        /\ IF is_run_crashed(state)
           THEN /\ rcRow' = [rcRow EXCEPT !.TrainingCheck = "Crash"]
                /\ rcPc' = "notify_crashed"
           ELSE /\ rcRow' = [rcRow EXCEPT !.TrainingCheck = "Done"]
                /\ rcPc' = "weight_file"
    /\ UNCHANGED <<rcProc, rcCfg, csvVars, rtVars, ptVars, gpuVars,
                   logVars, trkVars, lvVars, supVars>>

\* lines 348-365: run name of the record, else the tracker's (a third query)
rc_weight_file(exc) ==
    /\ rcPc = "weight_file"
    /\ LET name == tracker_get_run_name(exc)
           apiName == IF name = "None" THEN "" ELSE name
       IN /\ rcRow' = [rcRow EXCEPT !.WeightFile =
                         WeightFileOnDone(rc_get_run_name, apiName, @)]
          /\ rcSeen' = [rcSeen EXCEPT !.name =
                          IF rc_get_run_name # "" THEN "not asked" ELSE name]
    /\ rcPc' = "notify_completed"
    /\ UNCHANGED <<rcProc, rcCfg, csvVars, rtVars, ptVars, gpuVars,
                   logVars, trkVars, lvVars, supVars>>

\* lines 333-337 and 367-371: the notification call
rc_notify ==
    /\ rcPc \in {"notify_crashed", "notify_completed"}
    /\ rcPc' = IF (rcPc = "notify_crashed" /\ notify_training_crashed_raises)
                  \/ (rcPc = "notify_completed"
                      /\ notify_training_completed_raises)
               THEN "raised" ELSE "done"
    /\ UNCHANGED <<rcRow, rcProc, rcCfg, rcSeen, csvVars, rtVars, ptVars,
                   gpuVars, logVars, trkVars, lvVars, supVars>>

NotSeen == [finished |-> "", crashed |-> "", name |-> ""]
RcIdle ==
    /\ rcRow = Row("", "", "", "")
    /\ rcProc = RcRecord(FALSE, "", "")
    /\ rcCfg = [wandb |-> FALSE]
    /\ rcSeen = NotSeen
    /\ rcPc = "off"

\* ---- auto-opened log viewers (main_training_manager.py, process_manager.py) ----
\* keys of the record start_training_process stores
RecordKeys ==
    {"process", "pid", "command", "full_command", "start_time",
     "stdout_thread", "stderr_thread", "stdout_log", "stderr_log", "run_id",
     "gpu_id", "process_index", "training_args", "log_terminal_opened",
     "run_name"}
NoViewerRecord ==
    [keys |-> {}, alive |-> FALSE, log_terminal_opened |-> FALSE,
     stdout_file |-> FALSE, stderr_file |-> FALSE]
\* keys of the dict get_process_status returns
process_status_keys(rec) ==
    IF rec.keys = {} THEN {"status"}
    ELSE (rec.keys \ {"process", "stdout_thread", "stderr_thread"})
             \cup {"status"}
\* `if process_info and "log_terminal_opened" not in process_info`, then
\* both log files known and on disk
viewer_wanted(rec) ==
    /\ "log_terminal_opened" \notin process_status_keys(rec)
    /\ "stdout_log" \in process_status_keys(rec) /\ rec.stdout_file
    /\ "stderr_log" \in process_status_keys(rec) /\ rec.stderr_file

\* a row is admitted and its child survives the grace period: the log files
\* are created and the record is stored
lv_spawn(id) ==
    /\ lvRec[id].keys = {}
    /\ lvRec' = [lvRec EXCEPT ![id] =
                   [keys |-> RecordKeys, alive |-> TRUE,
                    log_terminal_opened |-> FALSE,
                    stdout_file |-> TRUE, stderr_file |-> TRUE]]
    /\ UNCHANGED <<lvViewers, lvCalled, lvTicks, csvVars, rtVars, ptVars,
                   gpuVars, logVars, trkVars, rcVars, supVars>>

\* the child exits; its row stays Training until it is reconciled
lv_exit(id) ==
    /\ lvRec[id].alive
    /\ lvRec' = [lvRec EXCEPT ![id].alive = FALSE]
    /\ UNCHANGED <<lvViewers, lvCalled, lvTicks, csvVars, rtVars, ptVars,
                   gpuVars, logVars, trkVars, rcVars, supVars>>

\* somebody removes a log file from the logs directory
lv_remove_file(id, st) ==
    /\ lvRec[id].keys # {}
    /\ lvRec[id][st]
    /\ lvRec' = [lvRec EXCEPT ![id] = [@ EXCEPT ![st] = FALSE]]
    /\ UNCHANGED <<lvViewers, lvCalled, lvTicks, csvVars, rtVars, ptVars,
                   gpuVars, logVars, trkVars, rcVars, supVars>>

\* one call of _print_training_logs, over the rows that are Training;
\* shown[id] is what show_combined_logs would return for the row
print_training_logs(shown) ==
    /\ lvTicks < MaxTicks
    /\ lvTicks' = lvTicks + 1
    /\ LET rows == {i \in IDs : lvRec[i].keys # {}}
           asked == {i \in rows : viewer_wanted(lvRec[i])}
       IN /\ lvCalled' = asked
          /\ lvViewers' = [i \in IDs |->
                             IF i \in asked /\ shown[i]
                             THEN lvViewers[i] + 1 ELSE lvViewers[i]]
          /\ lvRec' = [i \in IDs |->
                         IF i \in asked /\ shown[i]
                         THEN [lvRec[i] EXCEPT !.log_terminal_opened = TRUE]
                         ELSE lvRec[i]]
    /\ UNCHANGED <<csvVars, rtVars, ptVars, gpuVars, logVars, trkVars,
                   rcVars, supVars>>

LvIdle ==
    /\ lvRec = [i \in IDs |-> NoViewerRecord]
    /\ lvViewers = [i \in IDs |-> 0]
    /\ lvCalled = {}
    /\ lvTicks = 0

\* ---- specifications ----
Configs ==
    [max_training_process : 1..MaxProc, auto_continue : BOOLEAN,
     wandb : BOOLEAN]

InitCommon ==
    /\ processes = [i \in IDs |-> NoProc]
    /\ live = [i \in IDs |-> 0]
    /\ lock = "free"
    /\ process_index_counter = 0
    /\ running = FALSE
    /\ pcMon = "new"
    /\ checkList = <<>>
    /\ admitList = <<>>
    /\ running_count = 0
    /\ pcUI = "idle"
    /\ uiSel = 1
    /\ apiRet = Ret("", 0, "none")
    /\ tick = [stale |-> {}, reconciled |-> FALSE, admission |-> FALSE,
               definite |-> TRUE, raised |-> ""]
    /\ nameFound = {}
    /\ happy = {}

\* the other components at rest
AuxIdle == CsvIdle /\ RtIdle /\ PtIdle /\ GpuIdle /\ LogIdle /\ TrkIdle /\ RcIdle
    /\ LvIdle

AuxIdleButTracker == CsvIdle /\ RtIdle /\ PtIdle /\ GpuIdle /\ LogIdle

\* the supervisor at rest while another component is exercised
SupervisorIdle ==
    /\ InitCommon
    /\ table = [i \in IDs |-> Row("", "", "", "python train.py")]
    /\ cfg = [max_training_process |-> 1, auto_continue |-> FALSE,
              wandb |-> FALSE]
    /\ pcApi = "off"

\* the supervisor after MLTrainingManager.__init__
Init ==
    /\ InitCommon
    /\ table \in [IDs -> InitRows]
    /\ cfg \in Configs
    /\ pcApi = "off"
    /\ AuxIdle

Child ==
    \/ \E id \in IDs, rc \in {0, 1} : ChildExit(id, rc)
    \/ \E id \in IDs, k \in {"id", "name"} : read_output_stream(id, k)

MonitorWith(answers) ==
    \/ Start
    \/ TickBegin
    \/ LoopExit
    \/ \E fin \in answers, cr \in answers, nm \in TrackerNames :
          check_running_trainings(fin, cr, nm)
    \/ start_new_trainings
    \/ AdmitRow
    \/ \E popenOk \in BOOLEAN, outcome \in {"started", "blocked", "exception"} :
          SpawnBegin(popenOk, outcome)
    \/ \E ok \in BOOLEAN : SpawnGrace(ok)
    \/ AfterAdmission
    \/ FinishTick

Monitor == MonitorWith(TrackerStates)

UI ==
    \/ UIGetModels
    \/ UIShowAllLogs
    \/ \E id \in IDs : UIKeyS(id)
    \/ \E ret \in BOOLEAN : stop_training(ret)
    \/ stop

Next == Monitor \/ UI \/ Child

Spec == Init /\ [][Next]_vars

\* a ProcessManager after __init__, driven through its public methods
InitPM ==
    /\ InitCommon
    /\ table = [i \in IDs |-> Row("", "", "", "python train.py")]
    /\ cfg = [max_training_process |-> 1, auto_continue |-> FALSE,
              wandb |-> FALSE]
    /\ pcApi = "idle"
    /\ AuxIdle

Api ==
    \/ \E id \in IDs, popenOk \in BOOLEAN,
          outcome \in {"started", "blocked", "exception"} :
          ApiStart(id, popenOk, outcome)
    \/ \E ok \in BOOLEAN : ApiGrace(ok)
    \/ \E id \in IDs, ret \in BOOLEAN : ApiStop(id, ret)
    \/ get_all_processes
    \/ show_all_process_logs
    \/ ApiCleanup

NextPM == Api \/ Child

SpecPM == InitPM /\ [][NextPM]_vars

\* the ProcessManager with children that print any sequence of lines
ChildLines ==
    \/ \E id \in IDs, rc \in {0, 1} : ChildExit(id, rc)
    \/ \E id \in IDs, k \in {"id", "name"} :
          \E v \in ParsedValues(k) : read_output_line(id, k, v)
NextOutput == Api \/ ChildLines
SpecOutput == InitPM /\ [][NextOutput]_vars


\* the supervisor left alone by the user, every child exiting in the end and
\* the tracker classifying every run it is asked about
ChildExits == \E id \in IDs, rc \in {0, 1} : ChildExit(id, rc)
NextDrain == MonitorWith({"finished", "crashed", "failed"}) \/ Child
SpecDrain ==
    Init /\ [][NextDrain]_vars /\ WF_vars(NextDrain) /\ WF_vars(ChildExits)

\* two rows in Training; the control loop reconciles one of them while the
\* user stops the other from the UI
WriterArgs ==
    { a \in [Threads -> [id : IDs, column : {"TrainingCheck", "WeightFile"},
                         value : {"Done", "Crash", LogName}]] :
        /\ a["monitor"].id # a["ui"].id
        /\ a["ui"].column = "TrainingCheck" /\ a["ui"].value = "Crash"
        /\ \/ a["monitor"].column = "TrainingCheck"
              /\ a["monitor"].value = "Done"
           \/ a["monitor"].column = "WeightFile"
              /\ a["monitor"].value = LogName }
InitCsv ==
    /\ SupervisorIdle
    /\ disk = [i \in IDs |-> Row("Training", RunId, "", "python train.py")]
    /\ df = disk
    /\ out = [t \in Threads |-> NoOut]
    /\ pcW = [t \in Threads |-> "reload"]
    /\ argW \in WriterArgs
    /\ retW = [t \in Threads |-> FALSE]
    /\ RtIdle
    /\ PtIdle
    /\ GpuIdle
    /\ LogIdle
    /\ RcIdle
    /\ LvIdle
    /\ TrkIdle
NextCsv ==
    \E t \in Threads :
        uv_reload(t) \/ uv_assign(t) \/ to_csv_open(t) \/ to_csv_write(t)
SpecCsv == InitCsv /\ [][NextCsv]_vars

\* the control loop admits one row (it writes Training, then spawns) while
\* the user stops the other row, which is Training, from the UI
AdmitArgs ==
    { a \in [Threads -> [id : IDs, column : {"TrainingCheck"},
                         value : {"Training", "Crash"}]] :
        /\ a["monitor"].id # a["ui"].id
        /\ a["monitor"].value = "Training"
        /\ a["ui"].value = "Crash" }
InitAdmitRace ==
    /\ SupervisorIdle
    /\ RtIdle /\ PtIdle /\ GpuIdle /\ LogIdle /\ TrkIdle /\ RcIdle /\ LvIdle
    /\ argW \in AdmitArgs
    /\ disk = [i \in IDs |->
                 IF i = argW["ui"].id
                 THEN Row("Training", RunId, "", "python train.py")
                 ELSE Row("", "", "", "python train.py")]
    /\ df = disk
    /\ out = [t \in Threads |-> NoOut]
    /\ pcW = [t \in Threads |-> "reload"]
    /\ retW = [t \in Threads |-> FALSE]
NextAdmitRace ==
    \/ NextCsv
    \/ \E popenOk \in BOOLEAN : uv_spawn(popenOk)
SpecAdmitRace == InitAdmitRace /\ [][NextAdmitRace]_vars


\* a table file of any cell texts, and any update of an existing cell with
\* a value the supervisor writes: a string or an integer
CellTexts == {"", "3", "3.0", "run", "NA"}
RtValues == {PyStr(x) : x \in {"", "3", "run", "NA", "Done"}} \cup {PyInt(3)}
\* an ID no row has, a column the file does not have
AbsentId == NumRtRows + 1
AbsentColumn == "NoSuchColumn"
InitRoundTrip ==
    /\ SupervisorIdle
    /\ CsvIdle
    /\ PtIdle
    /\ GpuIdle
    /\ LogIdle
    /\ RcIdle
    /\ LvIdle
    /\ TrkIdle
    /\ rtFile \in [RtRows -> [RtCols -> CellTexts]]
    /\ \E id \in RtRows \cup {AbsentId}, c \in RtCols \cup {AbsentColumn},
          v \in RtValues :
          rtArg = [id |-> id, column |-> c, value |-> v, file |-> rtFile]
    /\ rtFrame = read_csv(rtFile)
    /\ rtPc = "start"
NextRoundTrip == rt_update_value \/ rt_reload
SpecRoundTrip == InitRoundTrip /\ [][NextRoundTrip]_vars


\* every table of rows A and B (aStatus is A's TrainingCheck, which a tick
\* fills together with WeightFile), every state of A's weight directory, and
\* every order in which os.listdir may return its files
Listings ==
    { l \in UNION {[1..n -> WeightFiles] : n \in 0..MaxFiles} :
        \A i, j \in DOMAIN l : i # j => l[i] # l[j] }
PtInputs ==
    { in \in [idKind : {"int", "str", "mixed"}, ref : {"A", "absent"},
              aPre : {"", "4", "expB"}, aWeight : {"", LogName},
              aStatus : {"", "Training", "Done", "Crash"},
              dirExists : BOOLEAN, listing : Listings] :
        /\ in.aStatus = "" => in.aWeight = ""
        /\ in.idKind = "str" => in.aPre = ""
        /\ in.idKind = "int" => in.aPre \in {"", "4"}
        /\ in.idKind = "mixed" => in.aPre \in {"", "expB"} }
InitPretrained ==
    /\ SupervisorIdle
    /\ CsvIdle
    /\ RtIdle
    /\ GpuIdle
    /\ LogIdle
    /\ RcIdle
    /\ LvIdle
    /\ TrkIdle
    /\ ptIn \in PtInputs
    /\ ptDf = PtFrame(ptIn)
    /\ ptLaunch = [launched |-> FALSE, pretrained_path |-> NoFile]
    /\ ptPc = "start"
NextPretrained == pt_resolve \/ pt_launch
SpecPretrained == InitPretrained /\ [][NextPretrained]_vars


\* every option text of at most MaxText characters (configparser strips
\* the blanks around a value), every mapping of slots to entry texts
Texts == UNION {[1..n -> Chars] : n \in 0..MaxText}
OptionTexts ==
    {t \in Texts : t # <<>> => (t[1] # " " /\ t[Len(t)] # " ")}
MappingTexts == {<<"1">>, <<" ", "1">>, <<"0", "+", "1">>}
Mappings ==
    UNION {[S -> MappingTexts] : S \in SUBSET (0..(MaxSlots - 1))}
GpuConfigs ==
    [on : {TRUE}, enable_gpu_assignment : BOOLEAN,
     process_gpu_mapping : Mappings, gpu_list : OptionTexts,
     allow_multi_gpu : BOOLEAN, default_gpu : {<<"0">>, <<"1">>}]
InitGpu ==
    /\ SupervisorIdle
    /\ CsvIdle
    /\ RtIdle
    /\ PtIdle
    /\ LogIdle
    /\ RcIdle
    /\ LvIdle
    /\ TrkIdle
    /\ gpuCfg \in GpuConfigs
    /\ gpuOut = <<>>
    /\ gpuRow = [use_process_order |-> TRUE, col |-> NoGpuColumn]
    /\ gpuLive = NoGpuLive
NextGpu == gpu_spawn
SpecGpu == InitGpu /\ [][NextGpu]_vars

\* rows with any GpuID column admitted under either use_process_order,
\* no process_gpu_mapping configured
InitGpuRow ==
    /\ InitGpu
    /\ gpuCfg.process_gpu_mapping = <<>>
    /\ gpuCfg.gpu_list \in {<<>>, <<"0", ",", "1">>}
NextGpuRow ==
    \E use_process_order \in BOOLEAN, col \in GpuColumns :
        gpu_spawn_row(use_process_order, col)
SpecGpuRow == InitGpuRow /\ [][NextGpuRow]_vars

\* assignment by process order over a gpu_list of distinct devices, one
\* device per process, max_training_process at most the number of devices
InitGpuLive ==
    /\ SupervisorIdle
    /\ CsvIdle /\ RtIdle /\ PtIdle /\ LogIdle /\ TrkIdle /\ RcIdle /\ LvIdle
    /\ gpuCfg \in GpuConfigs
    /\ gpuCfg.enable_gpu_assignment
    /\ ~gpuCfg.allow_multi_gpu
    /\ gpuCfg.process_gpu_mapping = <<>>
    /\ gpuCfg.gpu_list \in {<<"0">>, <<"0", ",", "1">>, <<"1", ",", "0">>}
    /\ gpuOut = <<>>
    /\ gpuRow = [use_process_order |-> TRUE, col |-> NoGpuColumn]
    /\ \E m \in 1..Len(get_list(gpuCfg.gpu_list, <<<<"0">>>>)) :
          gpuLive = [slots |-> {}, running_count |-> 0,
                     max_training_process |-> m]
NextGpuLive ==
    \/ \E started \in BOOLEAN : gpu_admit(started)
    \/ \E slot \in 0..(MaxSlots - 1) : gpu_exit(slot)
SpecGpuLive == InitGpuLive /\ [][NextGpuLive]_vars


\* a child whose two streams each carry up to MaxOut characters; the log
\* files hold their header when the reader threads start
ChildOutputs == UNION {[1..n -> OutChars] : n \in 0..MaxOut}
InitLog ==
    /\ SupervisorIdle
    /\ CsvIdle
    /\ RtIdle
    /\ PtIdle
    /\ GpuIdle
    /\ TrkIdle
    /\ RcIdle
    /\ LvIdle
    /\ childOut \in [Streams -> ChildOutputs]
    /\ logPos = [st \in Streams |-> 0]
    /\ logFile = [st \in Streams |-> Header]
    /\ logPc = [st \in Streams |-> "reading"]
NextLog == \E st \in Streams : read_output_char(st) \/ read_output_eof(st)
SpecLog == InitLog /\ [][NextLog]_vars


\* a run known to the tracker, queried MaxCalls times with or without the
\* remote call failing
InitTracker ==
    /\ SupervisorIdle
    /\ AuxIdleButTracker
    /\ RcIdle
    /\ LvIdle
    /\ trkRun \in [state : TrackerStates \ {"unknown"}, name : {ApiName}]
    /\ trkCall = [n |-> 0, op |-> "", exc |-> "", ret |-> ""]
NextTracker ==
    \/ \E op \in AdapterMethods, exc \in RemoteErrors \cup {""} :
          adapter_call(op, exc)
    \/ \E state \in {"finished", "crashed", "failed"} : remote_run_moves(state)
SpecTracker == InitTracker /\ [][NextTracker]_vars

\* a Training row with or without a run id and a WeightFile, a process
\* record that is gone or has exited, a run in any state on the tracker
RcRecords ==
    {RcRecord(FALSE, "", "")}
        \cup {RcRecord(TRUE, i, n) : i \in {"", RunId}, n \in {"", LogName}}
InitReconcile ==
    /\ SupervisorIdle
    /\ AuxIdleButTracker
    /\ LvIdle
    /\ trkRun \in [state : TrackerStates \ {"unknown"}, name : {ApiName}]
    /\ trkCall = [n |-> 0, op |-> "", exc |-> "", ret |-> ""]
    /\ rcRow \in {Row("Training", i, w, "python train.py") :
                     i \in {"", RunId}, w \in {"", LogName, ApiName}}
    /\ rcProc \in RcRecords
    /\ rcCfg \in [wandb : BOOLEAN]
    /\ rcSeen = NotSeen
    /\ rcPc = "start"
NextReconcile ==
    \/ rc_no_tracker_info
    \/ \E exc \in RemoteErrors \cup {""} :
          \/ rc_is_run_finished(exc)
          \/ rc_is_run_crashed(exc)
          \/ rc_weight_file(exc)
    \/ rc_notify
    \/ \E state \in {"finished", "crashed", "failed"} : remote_run_moves(state)
SpecReconcile == InitReconcile /\ [][NextReconcile]_vars

\* auto_log_terminal enabled: rows are spawned, ticks print their logs
InitViewer ==
    /\ SupervisorIdle
    /\ AuxIdle
NextViewer ==
    \/ \E id \in IDs : lv_spawn(id)
    \/ \E id \in IDs : lv_exit(id)
    \/ \E id \in IDs, st \in {"stdout_file", "stderr_file"} :
          lv_remove_file(id, st)
    \/ \E shown \in [IDs -> BOOLEAN] : print_training_logs(shown)
SpecViewer == InitViewer /\ [][NextViewer]_vars

\* ---- properties ----
TC(r) == table[r].TrainingCheck
Terminal == {"Done", "Crash"}

RECURSIVE Sum(_, _)
Sum(f, S) ==
    IF S = {} THEN 0
    ELSE LET x == CHOOSE y \in S : TRUE IN f[x] + Sum(f, S \ {x})
LiveTotal == Sum(live, IDs)

Admissible(r) == TC(r) = "" /\ table[r].TrainingCommand # ""

\* C1: TrainingCheck of every row only moves empty -> Training -> Done or
\* Crash: no step rewrites Done or Crash to another state, returns Training
\* to empty, or reaches Done or Crash from empty.
StepAllowed(a, b) ==
    \/ a = b
    \/ a = "" /\ b = "Training"
    \/ a = "Training" /\ b \in Terminal
C1_Monotonic == [][\A r \in IDs : StepAllowed(TC(r), TC(r)')]_vars

\* C2: at most one live child per ID at every instant, and a spawn request
\* for an ID whose process is live returns failure, starts nothing and
\* leaves the record as it was.
SpawnRequested(i) ==
    /\ pcApi = "idle"
    /\ apiRet'.op = "start_training_process"
    /\ apiRet'.id = i
    /\ (pcApi' # "idle" \/ process_index_counter' # process_index_counter)
C2_OneLivePerId ==
    /\ [](\A i \in IDs : live[i] <= 1)
    /\ [][\A i \in IDs : (is_process_running(i) /\ SpawnRequested(i)) =>
             /\ pcApi' = "idle"
             /\ apiRet'.ret = "failure"
             /\ processes' = processes
             /\ live' = live]_vars

\* C3: the number of live supervised children never exceeds
\* max_training_process.
C3_LiveWithinLimit == LiveTotal <= cfg.max_training_process
\* the limit stops the admission loop in front of a row it could admit
C3_Witness ==
    /\ pcMon = "admit"
    /\ admitList # <<>>
    /\ Head(admitList).TrainingCommand # ""
    /\ limit_reached(running_count)
    /\ LiveTotal = cfg.max_training_process

\* C4: no thread is left waiting for ProcessManager.lock while it holds the
\* lock itself: every ProcessManager call releases the lock and returns.
C4_LockReleased == pcMon # "blocked" /\ pcUI # "blocked"

\* C5: when a tick is over, every row that was Training without a live
\* process when the tick began is Done or Crash, provided the tracker
\* classified every run it was asked about in that tick as ended.
C5_StaleReconciled ==
    (pcMon = "idle" /\ tick.definite) =>
        \A r \in tick.stale : TC(r) \in Terminal

\* C6: with the loop and the children scheduled fairly and the tracker
\* answering, every row with empty TrainingCheck and a command eventually is
\* Done or Crash.
C6_Drained == \A r \in IDs : Admissible(r) ~> (TC(r) \in Terminal)

C8_AdmissionAfterReconcile ==
    (pcMon = "idle" /\ tick.reconciled) => tick.admission

\* C9: with a tracker configured, a row whose child was spawned, had its
\* "Syncing run" line parsed and exited 0 after the grace period, the tracker
\* reporting the run finished and its display name, is never Crash, and once
\* Done its WeightFile is the run name.
C9_HappyPathDone ==
    cfg.wandb =>
        \A r \in happy :
            /\ TC(r) \in {"Training", "Done"}
            /\ TC(r) = "Done" => table[r].WeightFile \in {LogName, ApiName}

\* the step of the control loop that calls stop() after the admission loop
LoopShutsDown ==
    pcMon = "admit" /\ pcMon' # "admit" /\ running /\ ~running'
\* C10: the control loop clears `running` itself only when auto_continue is
\* false, no process is live and no row is admissible.
C10_ShutdownOnlyWithoutAutoContinue ==
    [][LoopShutsDown =>
         /\ ~cfg.auto_continue
         /\ LiveTotal = 0
         /\ \A r \in IDs : ~Admissible(r)]_vars

\* C11: the table file is complete at every moment of an update: a reader
\* never finds it empty or cut short.
C11_FileAlwaysComplete == Complete(disk)

\* C13: two updates of different rows, one issued by the control loop and
\* one by the UI thread, do not interfere: once both have returned True the
\* file holds both values.
C13_NoLostUpdate ==
    (\A t \in Threads : pcW[t] = "done" /\ retW[t]) =>
        /\ Complete(disk)
        /\ \A t \in Threads :
              disk[argW[t].id][argW[t].column] = argW[t].value

\* two cells hold the same value: both missing, the same number, or the
\* same text
IsMissing(cell) == cell.t = "nan" \/ (cell.t = "str" /\ cell.s = "")
HasNumber(cell) == cell.t \in {"int", "float"} \/ (cell.t = "str" /\ IsNum(cell.s))
NumberOf(cell) == IF cell.t = "str" THEN NumOf(cell.s) ELSE cell.n
SameCell(x, y) ==
    \/ IsMissing(x) /\ IsMissing(y)
    \/ HasNumber(x) /\ HasNumber(y) /\ NumberOf(x) = NumberOf(y)
    \/ x.t = "str" /\ y.t = "str" /\ x.s = y.s
\* C12: after update_value(id, f, v) and a reload, the frame is the frame
\* of the original file with cell (id, f) holding v and every other cell
\* holding what it held.
C12_RoundTrip ==
    rtPc = "reloaded" =>
        \A r \in RtRows, c \in RtCols :
            SameCell(rtFrame[r][c],
                     IF r = rtArg.id /\ c = rtArg.column THEN rtArg.value
                     ELSE read_csv(rtArg.file)[r][c])

\* C14: once the global stop has returned, no supervised child is live (and
\* so none has been spawned since).
C14_NoLiveAfterStop == pcUI = "exited" => LiveTotal = 0

\* C15: whatever a tick raises, the loop thread survives it: the exception
\* is caught and the thread goes to its sleep, from where it runs the next
\* tick while the supervisor is running.
C15_LoopSurvives == pcMon # "dead"
\* a tick has raised, the thread is at its sleep and the supervisor runs
C15_Witness == pcMon = "idle" /\ running /\ tick.raised \in ExceptionClasses

\* the model_<loss>_<idx>.pth files of A's directory
PtModelFiles == {ptIn.listing[i] : i \in {j \in DOMAIN ptIn.listing :
                                              pattern_match(ptIn.listing[j])}}
\* B references A, A's WeightFile names an existing directory
PtDirectoryFound ==
    ptIn.ref = "A" /\ ptIn.aWeight # "" /\ ptIn.dirExists
\* C16: when B references A and A's WeightFile names an existing directory
\* holding model_<loss>_<idx>.pth files, B is launched with pretrained_path
\* set to one of them with the lowest loss.
C16_HandoffLowestLoss ==
    (ptPc = "launched" /\ PtDirectoryFound /\ PtModelFiles # {}) =>
        /\ ptLaunch.pretrained_path \in PtModelFiles
        /\ \A f \in PtModelFiles : ptLaunch.pretrained_path.loss <= f.loss

\* B references A, A has a WeightFile, and that directory does not exist
PtMissingDirectory ==
    ptIn.ref = "A" /\ ptIn.aWeight # "" /\ ~ptIn.dirExists
PtNegated ==
    ptDf["B"].PretrainedModelId # PtFrame(ptIn)["B"].PretrainedModelId
\* C17: with numeric IDs, when the directory of A's WeightFile is missing,
\* B's stored PretrainedModelId becomes -|A| and B is launched without
\* pretrained_path; and the stored id is negated in no other case.
C17_NegatedOnlyIfMissing ==
    (ptPc = "launched" /\ ptIn.idKind # "str") =>
        /\ PtMissingDirectory =>
              /\ ptDf["B"].PretrainedModelId.n = -3
              /\ ptLaunch.pretrained_path = NoFile
        /\ PtNegated => PtMissingDirectory

\* the gpu_list option as the ordered list L of device ids
RefL == StripAll(Split(gpuCfg.gpu_list, ","))
\* the assignment the reference algorithm gives slot i
RefAssign(i) ==
    CASE ~gpuCfg.enable_gpu_assignment -> GpuStr(<<>>)
      [] gpuCfg.enable_gpu_assignment /\ i \in DOMAIN gpuCfg.process_gpu_mapping ->
            LET val == gpuCfg.process_gpu_mapping[i] IN
            IF \E k \in DOMAIN val : val[k] = "+"
            THEN GpuList(StripAll(Split(val, "+")))
            ELSE GpuStr(Strip(val))
      [] OTHER ->
            IF gpuCfg.allow_multi_gpu /\ Len(RefL) > 1
            THEN IF i = 0 THEN GpuList(RefL)
                 ELSE GpuStr(RefL[((i - 1) % Len(RefL)) + 1])
            ELSE GpuStr(RefL[(i % Len(RefL)) + 1])
\* gpu_list = 0,1 with allow_multi_gpu, assignment enabled and no mapping
GpuExample ==
    /\ gpuCfg.on
    /\ gpuCfg.enable_gpu_assignment
    /\ gpuCfg.allow_multi_gpu
    /\ gpuCfg.gpu_list = <<"0", ",", "1">>
    /\ gpuCfg.process_gpu_mapping = <<>>
GpuExampleEnv == << <<"0", ",", "1">>, <<"0">>, <<"1">> >>
\* C18: with a non-empty gpu_list every slot is given what the reference
\* algorithm gives it, and gpu_list = 0,1 with allow_multi_gpu gives slots
\* 0, 1, 2 the devices "0,1", "0", "1".
C18_AssignmentIsReference ==
    (gpuCfg.on /\ gpuCfg.gpu_list # <<>>) =>
        \A k \in DOMAIN gpuOut :
            /\ gpuOut[k].gpu_id = RefAssign(k - 1)
            /\ GpuExample => gpuOut[k].env = GpuExampleEnv[k]
C18_Witness ==
    /\ GpuExample
    /\ Len(gpuOut) = MaxSlots
    /\ \A k \in DOMAIN gpuOut : gpuOut[k].env = GpuExampleEnv[k]

\* the slot has no process_gpu_mapping entry and gpu_list is empty
GpuEmptyList ==
    /\ gpuCfg.on
    /\ gpuCfg.enable_gpu_assignment
    /\ gpuCfg.gpu_list = <<>>
\* C19: with assignment enabled, no mapping entry for the slot and an empty
\* gpu_list, every slot is given default_gpu.
C19_EmptyListGivesDefault ==
    GpuEmptyList =>
        \A k \in DOMAIN gpuOut :
            (k - 1) \notin DOMAIN gpuCfg.process_gpu_mapping =>
                gpuOut[k].gpu_id = GpuStr(gpuCfg.default_gpu)

\* what a closed log file holds between its header and its footer
LogBody(st) == SubSeq(logFile[st], Len(Header) + 1, Len(logFile[st]) - Len(Footer))
\* C20: once a stream is read to its end, its log file holds exactly the
\* character sequence the child wrote to it, carriage returns included.
C20_LogIsExact ==
    \A st \in Streams : logPc[st] = "closed" => LogBody(st) = childOut[st]

\* what each method returns when the remote call failed
ReturnOnError(op) ==
    CASE op = "get_run_status" -> "unknown"
      [] op = "is_run_finished" -> "False"
      [] op = "is_run_crashed" -> "False"
      [] op = "get_run_name" -> "None"
      [] OTHER -> ""
\* C21: a failed remote call makes the state query yield unknown,
\* is_run_finished and is_run_crashed return false and get_run_name return
\* nothing, no exception leaves the adapter, and no adapter call changes the
\* run held by the remote tracker.
C21_AdapterNeverThrows ==
    /\ [](trkCall.ret # "raise")
    /\ [](trkCall.exc # "" => trkCall.ret = ReturnOnError(trkCall.op))
    /\ [][trkCall' # trkCall => trkRun' = trkRun]_vars
C21_Witness ==
    /\ trkCall.op = "is_run_finished"
    /\ trkCall.exc = "Timeout"
    /\ trkCall.ret = "False"
    /\ trkRun.state = "finished"

\* C22: the row is set to Done only if the run is finished on the tracker,
\* and a run the tracker holds as crashed or failed is never set to Done,
\* whichever single queries met a transient error.
C22_DoneOnlyIfFinished ==
    rcRow.TrainingCheck = "Done" => trkRun.state = "finished"

\* a row that was Training without a live process when the tick began, has
\* a run id, and was left Training by the tick: the tracker did not report
\* the run as ended
Deferred(r) ==
    /\ r \in tick.stale
    /\ TC(r) = "Training"
    /\ table[r].WandbRunID # ""
    /\ cfg.wandb
\* C23: a Training row without a live process whose run the tracker reports
\* as running or unknown is left as it is, and the control loop does not
\* shut itself down while that row is still Training.
C23_DeferredKeepsTicking ==
    [][LoopShutsDown => \A r \in IDs : ~Deferred(r)]_vars

\* the tick sets row r to Crash in the branch that asks no tracker
NoVerdictCrash(r) ==
    /\ pcMon = "check"
    /\ pcMon' = "check"
    /\ checkList # <<>>
    /\ Head(checkList).id = r
    /\ checkList' = Tail(checkList)
    /\ TC(r) = "Training"
    /\ TC(r)' = "Crash"
\* C24: with a tracker configured, a Training row without a live process is
\* set to Crash without a tracker verdict only when neither its WandbRunID
\* nor its process record holds a run id.
C24_CrashOnlyWithoutRunId ==
    [][\A r \in IDs :
         (cfg.wandb /\ NoVerdictCrash(r)) =>
            /\ table[r].WandbRunID = ""
            /\ get_wandb_run_id(r) = ""]_vars

\* the step that writes the WeightFile of a row just set to Done
WeightFileStep == rcPc = "weight_file" /\ rcPc' = "notify_completed"
\* C25: when a row is reconciled to Done its WeightFile becomes the run name
\* found in the child's output if the record holds one, else the tracker's
\* display name, else what it was; a tracker name never replaces a name
\* found in the child's output.
C25_WeightFilePriority ==
    [][WeightFileStep =>
         /\ rc_get_run_name # "" => rcRow'.WeightFile = rc_get_run_name
         /\ rc_get_run_name = "" =>
               rcRow'.WeightFile \in {trkRun.name, rcRow.WeightFile}
         /\ rcRow.WeightFile = LogName => rcRow'.WeightFile = LogName
      ]_vars

\* the row the admission loop is spawning
Spawning == Head(admitList).id
\* start_training_process returns success / failure for row r
SpawnSucceeded(r) ==
    /\ pcMon = "grace"
    /\ Spawning = r
    /\ pcMon' = "admit"
    /\ processes'[r].status = "running"
SpawnFailed(r) ==
    /\ pcMon \in {"spawn", "grace"}
    /\ Spawning = r
    /\ pcMon' = "admit"
    /\ ~(processes'[r].present /\ processes'[r].status = "running")
C27_EmptyCommandSkipped ==
    /\ \A r \in IDs : table[r].TrainingCommand = "" => TC(r) = ""
    /\ (\A r \in IDs : table[r].TrainingCommand = "") =>
           process_index_counter = 0

\* C28: emitting the completed or crashed event after a reconciliation to
\* Done or to a tracker-reported Crash succeeds: the call does not raise, so
\* the tick goes on with the remaining rows, admission and cleanup.
C28_EventDoesNotInterrupt == tick.raised # "TypeError"

\* C29: a process record is dropped only after its process has exited and
\* only once its row has been reconciled out of Training.
C29_RecordKeptUntilReconciled ==
    [][\A r \in IDs :
          (processes[r].present /\ ~processes'[r].present) =>
              /\ ~processes[r].alive
              /\ TC(r) # "Training"]_vars

\* C30: once stop_training_process has returned true for a live process, the
\* process is no longer live, its record is marked stopped and its row is
\* Crash from then on.
C30_StoppedRowEndsCrash ==
    \A r \in IDs :
        (processes[r].present /\ processes[r].status = "stopped") =>
            /\ ~processes[r].alive
            /\ TC(r) = "Crash"

\* C31: when start_training_process returns after its grace period, a child
\* that has exited gives record status 'error' and failure, a child still
\* running gives status 'running' and success.
C31_GraceOutcome ==
    [][(pcApi = "grace" /\ pcApi' = "idle") =>
          IF processes[apiRet.id].alive
          THEN /\ processes'[apiRet.id].status = "running"
               /\ apiRet'.ret = "success"
          ELSE /\ processes'[apiRet.id].status = "error"
               /\ apiRet'.ret = "failure"]_vars
\* the call returned failure for a child that exited during the grace period
C31_Witness ==
    /\ apiRet.op = "start_training_process"
    /\ apiRet.ret = "failure"
    /\ processes[apiRet.id].present
    /\ processes[apiRet.id].status = "error"

\* C32: the k-th process launched after start receives slot index k: the
\* counter moves only by one, and only in a step that launches a process,
\* which receives the value the counter had (the reset at start aside).
C32_SlotIndexIsLaunchRank ==
    [][(process_index_counter' # process_index_counter /\ pcMon # "new") =>
          /\ process_index_counter' = process_index_counter + 1
          /\ \E r \in IDs :
                /\ processes'[r] # processes[r]
                /\ processes'[r].present /\ processes'[r].alive
                /\ processes'[r].process_index = process_index_counter]_vars

\* C33: the run_id and run_name of a process record are write-once: once a
\* value has been recorded, no later line of the same child changes it.
SameRecord(r) ==
    /\ processes[r].present /\ processes'[r].present
    /\ processes'[r].process_index = processes[r].process_index
C33_DiscoveryWriteOnce ==
    [][\A r \in IDs : SameRecord(r) =>
          /\ processes[r].run_id # "" =>
                 processes'[r].run_id = processes[r].run_id
          /\ processes[r].run_name # "" =>
                 processes'[r].run_name = processes[r].run_name]_vars

\* C34: a tick that visits a row whose process is live fills the row's empty
\* WandbRunID with the discovered run id and its empty WeightFile with the
\* discovered run name, tracker configured or not, and leaves a non-empty
\* WandbRunID or WeightFile as it is.
VisitsLive(r) ==
    /\ pcMon = "check" /\ checkList # <<>>
    /\ Head(checkList).id = r
    /\ is_process_running(r)
    /\ checkList' = Tail(checkList)
C34_LiveFill ==
    [][\A r \in IDs : VisitsLive(r) =>
          /\ IF table[r].WandbRunID # ""
             THEN table'[r].WandbRunID = table[r].WandbRunID
             ELSE get_wandb_run_id(r) # "" =>
                      table'[r].WandbRunID = get_wandb_run_id(r)
          /\ IF table[r].WeightFile # ""
             THEN table'[r].WeightFile = table[r].WeightFile
             ELSE get_run_name(r) # "" =>
                      table'[r].WeightFile = get_run_name(r)]_vars

\* C35: the child of a spawned row gets the row's GpuID as it stands in the
\* table when use_process_order is false and the cell is non-empty, and the
\* assigner's result for its slot index in every other case.
GpuOverride ==
    /\ ~gpuRow.use_process_order
    /\ gpuRow.col.present
    /\ gpuRow.col.text # <<>>
C35_GpuOverrideOrAssigner ==
    gpuOut # <<>> =>
        LET k == Len(gpuOut) IN
        IF GpuOverride
        THEN gpuOut[k].env = gpuRow.col.text
        ELSE /\ gpuOut[k].gpu_id =
                    assign_gpu_to_process_index(gpuCfg, k - 1)
             /\ gpuOut[k].env = cuda_visible_devices(gpuOut[k].gpu_id)

\* C36: with auto-opening enabled, a tick opens the viewer of every row that
\* has a running process, both log files and no viewer yet, and no process
\* ever gets a second viewer.
ViewerDue(i) ==
    /\ lvRec[i].alive
    /\ lvRec[i].stdout_file /\ lvRec[i].stderr_file
    /\ lvViewers[i] = 0
C36_ViewerOpenedOnce ==
    /\ [](\A i \in IDs : lvViewers[i] <= 1)
    /\ [][lvTicks' # lvTicks =>
            \A i \in IDs : ViewerDue(i) => i \in lvCalled']_vars

\* C37: row B is launched with a pretrained_path taken from row A only if
\* A's TrainingCheck is Done at that time.
C37_CheckpointOnlyFromDone ==
    (ptLaunch.launched /\ ptLaunch.pretrained_path # NoFile) =>
        ptIn.aStatus = "Done"

\* C38: with one device per process, no mapping, assignment by process order
\* and max_training_process at most the number of devices, no two live
\* processes have the same device.
C38_ExclusiveDevice ==
    \A i, j \in gpuLive.slots :
        i # j => gpuOut[i + 1].env # gpuOut[j + 1].env

\* C39: whenever a supervised child process is live, its row's TrainingCheck
\* in the table is Training: no process is spawned for a row whose Training
\* status was not persisted (the table being read once every writer is done).
C39_LiveRowIsTraining ==
    \A r \in IDs :
        (live[r] > 0 /\ \A t \in Threads : pcW[t] = "done") =>
            /\ Complete(disk)
            /\ disk[r].TrainingCheck = "Training"

\* C40: update_value on an ID that is not in the table, or on a column that
\* does not exist, returns False and leaves the table file as it was.
UnknownTarget == rtArg.id \notin RtRows \/ rtArg.column \notin RtCols
C40_UnknownTargetRefused ==
    (rtPc \in {"updated", "refused", "reloaded"} /\ UnknownTarget) =>
        /\ rtPc = "refused"
        /\ rtFile = rtArg.file
\* the call was refused for a missing ID, and for a missing column
C40_Witness ==
    /\ rtPc = "refused"
    /\ rtArg.id = AbsentId
    /\ rtArg.column \in RtCols
    /\ rtFile = rtArg.file

====
